---- MODULE Spec2Model ----
(***************************************************************************)
(* A model of the sandboxed filesystem server                              *)
(* (src/servers/filesystem/filesystem_mcp.py).                             *)
(*                                                                         *)
(* Text is modelled character by character: a Python str, and the bytes of *)
(* a file, are sequences of one-character strings (the model keeps to      *)
(* ASCII, where a UTF-8 byte is a character).  A path string is such a     *)
(* sequence too, so that normalisation, the separator-aware prefix test    *)
(* and the temp-file suffix are computed as the code computes them.        *)
(* The platform is POSIX: os.sep = "/", os.linesep = "\n".                 *)
(***************************************************************************)
EXTENDS Integers, Sequences, FiniteSets, TLC

VARIABLES
    fs,         \* the filesystem: physical path (sequence of names) -> node
    cwd,        \* os.getcwd() of the server process, a path string
    conf,       \* the module's configuration: loading, failed, or serving a root
    op,         \* the tool call being served, or served last: name and arguments
    ret,        \* the JSON payload the call returned
    oscalls,    \* the operating-system calls of that call, in order
    vcalls,     \* the validate_path calls of that call: argument and outcome
    fs0,        \* the filesystem as it was when that call began
    wr,         \* the temp-file-and-rename sequence of a write or edit in progress
    obs,        \* what an outside reader saw when it last opened a file
    hist        \* what earlier calls left for a later call to be compared with

vars == <<fs, cwd, conf, op, ret, oscalls, vcalls, fs0, wr, obs, hist>>

----------------------------------------------------------------------------
(* Strings as sequences of characters.                                     *)

NL == "\n"
CR == "\r"
SEP == "/"

\* str.strip() with no argument strips these (the model's alphabet has no
\* other whitespace).
Whitespace == {" ", "\t", NL, CR}

\* Whitespace a line can still hold after splitlines().

StartsWith(s, pre) ==
    /\ Len(pre) <= Len(s)
    /\ SubSeq(s, 1, Len(pre)) = pre

EndsWith(s, suf) ==
    /\ Len(suf) <= Len(s)
    /\ SubSeq(s, Len(s) - Len(suf) + 1, Len(s)) = suf

\* s[k:] of Python, k >= 0.
From(s, k) == SubSeq(s, k + 1, Len(s))

\* The elements of a finite set of integers in increasing order.
Sorted(S) ==
    [k \in 1..Cardinality(S) |->
        CHOOSE i \in S : Cardinality({j \in S : j < i}) = k - 1]

\* str.lstrip(chars), str.rstrip(chars), str.strip(chars).
LStrip(s, chars) ==
    LET keep == {i \in 1..Len(s) : s[i] \notin chars}
    IN  IF keep = {} THEN <<>>
        ELSE SubSeq(s, CHOOSE i \in keep : \A j \in keep : i <= j, Len(s))

RStrip(s, chars) ==
    LET keep == {i \in 1..Len(s) : s[i] \notin chars}
    IN  IF keep = {} THEN <<>>
        ELSE SubSeq(s, 1, CHOOSE i \in keep : \A j \in keep : i >= j)

Strip(s, chars) == LStrip(RStrip(s, chars), chars)

\* The first index at which sub occurs in s, 0 when it does not (str.find + 1).
Find(s, sub) ==
    LET at == {i \in 1..(Len(s) - Len(sub) + 1) : SubSeq(s, i, i + Len(sub) - 1) = sub}
    IN  IF at = {} THEN 0 ELSE CHOOSE i \in at : \A j \in at : i <= j

Contains(s, sub) == Find(s, sub) # 0

\* The concatenation of a sequence of strings, sep between neighbours:
\* sep.join(parts).
RECURSIVE JoinWith(_, _)
JoinWith(parts, sep) ==
    IF parts = <<>> THEN <<>>
    ELSE IF Len(parts) = 1 THEN parts[1]
    ELSE parts[1] \o sep \o JoinWith(Tail(parts), sep)

\* s.split(c) for a one-character separator c: the pieces between the
\* occurrences of c, empty pieces kept.
SplitChar(s, c) ==
    LET at == Sorted({i \in 1..Len(s) : s[i] = c})
        n  == Len(at)
    IN  [k \in 1..(n + 1) |->
            SubSeq(s, IF k = 1 THEN 1 ELSE at[k - 1] + 1,
                      IF k = n + 1 THEN Len(s) ELSE at[k] - 1)]

\* n copies of the string s.
RECURSIVE Repeat(_, _)
Repeat(s, n) ==
    IF n <= 0 THEN <<>>
    ELSE IF n = 1 THEN s
    ELSE LET h == Repeat(s, n \div 2)
         IN  IF n % 2 = 0 THEN h \o h ELSE h \o h \o s

----------------------------------------------------------------------------
(* Line handling.                                                          *)

\* text with the characters at the increasing positions drop[k..] left
\* out, from position start on.
RECURSIVE CutOut(_, _, _, _)
CutOut(text, drop, k, start) ==
    IF k > Len(drop) THEN SubSeq(text, start, Len(text))
    ELSE SubSeq(text, start, drop[k] - 1) \o CutOut(text, drop, k + 1, drop[k] + 1)

\* normalize_line_endings: text.replace("\r\n", "\n").
normalize_line_endings(text) ==
    LET drop == {i \in 1..Len(text) :
                    text[i] = CR /\ i < Len(text) /\ text[i + 1] = NL}
    IN  IF drop = {} THEN text ELSE CutOut(text, Sorted(drop), 1, 1)

\* What a text-mode read (open(path, "r"), newline=None) makes of a file's
\* bytes: universal newlines, "\r\n" and a lone "\r" both become "\n".
TextDecode(bytes) ==
    LET CrToNl(t) == [i \in 1..Len(t) |-> IF t[i] = CR THEN NL ELSE t[i]]
    IN  CrToNl(normalize_line_endings(bytes))

\* os.linesep.
LINESEP == <<NL>>

\* What a text-mode write (open(path, "w" or "x"), newline=None) puts on
\* disk: every "\n" becomes os.linesep; "\r" is written as it is.
TextEncode(text) ==
    LET Pieces(ends) ==
            [k \in 1..(Len(ends) + 1) |->
                SubSeq(text, IF k = 1 THEN 1 ELSE ends[k - 1] + 1,
                             IF k > Len(ends) THEN Len(text) ELSE ends[k] - 1)]
    IN  JoinWith(Pieces(Sorted({i \in 1..Len(text) : text[i] = NL})), LINESEP)

\* str.splitlines(): the lines of s without their terminators; "\n", "\r"
\* and "\r\n" each end a line, and no empty last line is reported.
splitlines(s) ==
    LET Lines(ends) ==
            LET n == Len(ends)
                first(k) == IF k = 1 THEN 1 ELSE ends[k - 1] + 1
                last(k)  == IF k = n + 1 THEN Len(s)
                            ELSE IF s[ends[k]] = NL /\ ends[k] > 1
                                      /\ s[ends[k] - 1] = CR
                                 THEN ends[k] - 2
                                 ELSE ends[k] - 1
                open == IF n = 0 THEN Len(s) > 0 ELSE ends[n] < Len(s)
            IN  [k \in 1..(IF open THEN n + 1 ELSE n) |-> SubSeq(s, first(k), last(k))]
    IN  Lines(Sorted({i \in 1..Len(s) :
                        \/ s[i] = NL
                        \/ s[i] = CR /\ ~(i < Len(s) /\ s[i + 1] = NL)}))

----------------------------------------------------------------------------
(* Path strings (posixpath).                                               *)

NUL == "\\0"
Quotes == {"'", "\""}
Tilde == "~"
Dot == <<".">>
DotDot == <<".", ".">>

\* The configured allowedDir (config["mcpServers"]["filesystem-server"]).
ALLOWED_DIR == <<SEP, "s">>

\* os.path.expanduser("~"): the home directory of the server's user.
HomeDir == <<SEP, "h">>

isabs(p) == StartsWith(p, <<SEP>>)

\* os.path.join(a, b).
PathJoin(a, b) ==
    IF isabs(b) THEN b
    ELSE IF a = <<>> \/ EndsWith(a, <<SEP>>) THEN a \o b
    ELSE a \o <<SEP>> \o b

\* The loop of posixpath.normpath over the components: "" and "." are
\* skipped, ".." pops a component unless there is none to pop.
RECURSIVE NormComps(_, _, _)
NormComps(comps, new_comps, initial_slashes) ==
    IF comps = <<>> THEN new_comps
    ELSE LET comp == Head(comps)
             rest == Tail(comps)
         IN  IF comp = <<>> \/ comp = Dot
                 THEN NormComps(rest, new_comps, initial_slashes)
             ELSE IF \/ comp # DotDot
                     \/ (initial_slashes = 0 /\ new_comps = <<>>)
                     \/ (new_comps # <<>> /\ new_comps[Len(new_comps)] = DotDot)
                 THEN NormComps(rest, Append(new_comps, comp), initial_slashes)
             ELSE IF new_comps # <<>>
                 THEN NormComps(rest, SubSeq(new_comps, 1, Len(new_comps) - 1),
                                initial_slashes)
             ELSE NormComps(rest, new_comps, initial_slashes)

\* os.path.normpath: exactly two leading slashes are kept.
normpath(path) ==
    IF path = <<>> THEN Dot
    ELSE LET initial_slashes ==
                 IF ~StartsWith(path, <<SEP>>) THEN 0
                 ELSE IF StartsWith(path, <<SEP, SEP>>)
                         /\ ~StartsWith(path, <<SEP, SEP, SEP>>) THEN 2
                 ELSE 1
             OrDot(out) == IF out = <<>> THEN Dot ELSE out
         IN  OrDot(Repeat(<<SEP>>, initial_slashes)
                   \o JoinWith(NormComps(SplitChar(path, SEP), <<>>, initial_slashes),
                               <<SEP>>))

\* normalize_path, for a process whose working directory is wd.
normalize_path(wd, p) ==
    LET Absolute(p3) == IF ~isabs(p3) THEN normpath(PathJoin(wd, p3)) ELSE p3
        Expand(p1) == IF StartsWith(p1, <<Tilde, SEP>>) \/ p1 = <<Tilde>>
                      THEN PathJoin(HomeDir, From(p1, 1))
                      ELSE p1
    IN  Absolute(normpath(Expand(Strip(Strip(p, Whitespace), Quotes))))

\* is_path_within_allowed_directory with a prefix test that forgets the
\* separator: "/allowed-other" passes for "/allowed".
is_path_within_allowed_directory_NoSep(wd, absolute_path, allowed_dir) ==
    LET Within(normalized_path, normalized_allowed) ==
            IF \E i \in 1..Len(normalized_path) : normalized_path[i] = NUL THEN FALSE
            ELSE StartsWith(normalized_path, normalized_allowed)
    IN  Within(normalize_path(wd, absolute_path), normalize_path(wd, allowed_dir))

\* is_path_within_allowed_directory without the equality case: the root
\* itself does not pass.
is_path_within_allowed_directory_NoEqual(wd, absolute_path, allowed_dir) ==
    LET Within(normalized_path, normalized_allowed) ==
            IF \E i \in 1..Len(normalized_path) : normalized_path[i] = NUL THEN FALSE
            ELSE StartsWith(normalized_path, normalized_allowed \o <<SEP>>)
    IN  Within(normalize_path(wd, absolute_path), normalize_path(wd, allowed_dir))

\* is_path_within_allowed_directory.  Both paths are absolute once
\* normalised, so the "Paths must be absolute" error cannot be raised.
is_path_within_allowed_directory(wd, absolute_path, allowed_dir) ==
    LET Within(normalized_path, normalized_allowed) ==
            IF \E i \in 1..Len(normalized_path) : normalized_path[i] = NUL THEN FALSE
            ELSE IF normalized_path = normalized_allowed THEN TRUE
            ELSE StartsWith(normalized_path, normalized_allowed \o <<SEP>>)
    IN  Within(normalize_path(wd, absolute_path), normalize_path(wd, allowed_dir))

----------------------------------------------------------------------------
(* The filesystem.  A physical path is the sequence of the names from the  *)
(* root directory down (<<>> is "/"); no name on it is a symbolic link     *)
(* except possibly the last.  fs maps each existing physical path to its   *)
(* node.                                                                   *)

Dir == [kind |-> "dir", data |-> <<>>, target |-> <<>>]
File(bytes) == [kind |-> "file", data |-> bytes, target |-> <<>>]
Link(to) == [kind |-> "link", data |-> <<>>, target |-> to]

Exists(fsys, phys) == phys \in DOMAIN fsys
IsKind(fsys, phys, k) == Exists(fsys, phys) /\ fsys[phys].kind = k

NonEmpty(c) == c # <<>>

\* The names of a path string, and the string of a physical path.
ToComps(p) == SelectSeq(SplitChar(p, SEP), NonEmpty)
ToStr(phys) == <<SEP>> \o JoinWith(phys, <<SEP>>)

DropLast(q) == SubSeq(q, 1, Len(q) - 1)

\* posixpath._joinrealpath(path, rest, strict=False, seen): resolve the
\* names of rest one by one from the resolved directory path.  A name that
\* does not exist is kept as it is; a link met again while it is being
\* resolved ends the walk with ok = FALSE and the rest appended.  active is
\* the set of links being resolved (the entries of seen that are None).
RECURSIVE JoinRealPath(_, _, _, _)
JoinRealPath(fsys, path, rest, active) ==
    IF rest = <<>> THEN [path |-> path, ok |-> TRUE]
    ELSE LET name == Head(rest)
             more == Tail(rest)
             newpath == Append(path, name)
             After(res) == IF ~res.ok THEN [path |-> res.path \o more, ok |-> FALSE]
                           ELSE JoinRealPath(fsys, res.path, more, active)
             Follow(to) == After(JoinRealPath(fsys, IF isabs(to) THEN <<>> ELSE path,
                                              ToComps(to), active \cup {newpath}))
         IN  IF name = Dot THEN JoinRealPath(fsys, path, more, active)
             ELSE IF name = DotDot
                 THEN JoinRealPath(fsys, IF path = <<>> THEN path ELSE DropLast(path),
                                   more, active)
             ELSE IF ~IsKind(fsys, newpath, "link")
                 THEN JoinRealPath(fsys, newpath, more, active)
             ELSE IF newpath \in active
                 THEN [path |-> newpath \o more, ok |-> FALSE]
             ELSE Follow(fsys[newpath].target)

\* os.path.realpath(filename) for an absolute filename (strict=False: it
\* raises neither for a missing component nor for a link loop).
realpath(fsys, filename) ==
    normpath(ToStr(JoinRealPath(fsys, <<>>, ToComps(filename), {}).path))

\* The physical path the kernel reaches for a path string, following every
\* link, the last one too (open, stat, listdir, isdir): ok is FALSE for a
\* link loop.  The path reached need not exist.
Reach(fsys, p) ==
    JoinRealPath(fsys, <<>>, ToComps(p), {})

\* The same without following a link in the last name (rename, unlink,
\* open with O_EXCL, lstat).
ReachNoFollow(fsys, p) ==
    LET In(comps) ==
            IF comps = <<>> THEN [path |-> <<>>, ok |-> TRUE]
            ELSE LET Under(d) == [path |-> Append(d.path, comps[Len(comps)]), ok |-> d.ok]
                 IN  Under(JoinRealPath(fsys, <<>>, DropLast(comps), {}))
    IN  In(ToComps(p))

----------------------------------------------------------------------------
(* validate_path.                                                          *)

\* What validate_path gives: the path returned, or the ValueError raised
\* (err is the fixed part of its message, quoted the path it names).
Ok(path) == [ok |-> TRUE, path |-> path, err |-> "none", quoted |-> <<>>]
Raise(err, quoted) == [ok |-> FALSE, path |-> <<>>, err |-> err, quoted |-> quoted]

\* validate_path without the second containment test, on the resolved path.
validate_path_NoRealCheck(fsys, wd, requested_path) ==
    LET Checked(absolute_path) ==
            IF ~is_path_within_allowed_directory(wd, absolute_path, ALLOWED_DIR)
                THEN Raise("Access denied - path outside allowed directory", absolute_path)
            ELSE Ok(realpath(fsys, absolute_path))
    IN  Checked(normalize_path(wd, requested_path))

\* validate_path(requested_path).  os.path.realpath does not raise
\* FileNotFoundError (strict=False), so the except branch of lines 80-86 is
\* never entered: a path whose last name does not exist takes the same way
\* as any other, and its resolved form is returned.
validate_path(fsys, wd, requested_path) ==
    LET Resolved(real_path) ==
            IF ~is_path_within_allowed_directory(wd, real_path, ALLOWED_DIR)
                THEN Raise("Access denied - symlink target outside allowed directory",
                           real_path)
            ELSE Ok(real_path)
        Checked(absolute_path) ==
            IF ~is_path_within_allowed_directory(wd, absolute_path, ALLOWED_DIR)
                THEN Raise("Access denied - path outside allowed directory", absolute_path)
            ELSE Resolved(realpath(fsys, absolute_path))
    IN  Checked(normalize_path(wd, requested_path))

----------------------------------------------------------------------------
(* The tree the model runs on.  The allowed root is /s; /sx is a sibling   *)
(* whose name has the root's name as a prefix; /e is a directory outside   *)
(* the root, with a file p; /e/i is a link outside the root that points    *)
(* into it.  /s/l is a link that some other process creates, retargets or  *)
(* removes while the server runs.                                          *)

nS == <<"s">>
nSX == <<"s", "x">>
nE == <<"e">>
nA == <<"a">>
nD == <<"d">>
nF == <<"f">>
nL == <<"l">>
nN == <<"n">>
nP == <<"p">>
nI == <<"i">>
nG == <<"g">>

PathOf(names) == ToStr(names)

BaseTree(dataA) ==
    (<<>> :> Dir) @@ (<<nS>> :> Dir) @@ (<<nS, nA>> :> File(dataA))
    @@ (<<nS, nD>> :> Dir) @@ (<<nS, nD, nF>> :> File(<<"f", NL>>))
    @@ (<<nSX>> :> Dir) @@ (<<nSX, nG>> :> File(<<"g">>))
    @@ (<<nE>> :> Dir) @@ (<<nE, nP>> :> File(<<"p">>))
    @@ (<<nE, nI>> :> Link(PathOf(<<nS, nA>>)))

\* Where /s/l may point: out of the root, to a directory inside it, to the
\* root itself (a cycle for a walk that follows links), to itself.
LinkTargets ==
    {PathOf(<<nE>>), PathOf(<<nS, nD>>), PathOf(<<nS>>), PathOf(<<nS, nL>>)}

\* fsys with the node at phys set to node, or removed.
Put(fsys, phys, node) == [q \in (DOMAIN fsys) \cup {phys} |->
                              IF q = phys THEN node ELSE fsys[q]]
Remove(fsys, phys) == [q \in (DOMAIN fsys) \ {phys} |-> fsys[q]]

\* True when the directory that would hold phys exists.
ParentIsDir(fsys, phys) == phys # <<>> /\ IsKind(fsys, DropLast(phys), "dir")

\* The names in the directory at phys.
Children(fsys, phys) ==
    {q[Len(q)] : q \in {r \in DOMAIN fsys : Len(r) = Len(phys) + 1
                                            /\ DropLast(r) = phys}}

\* Every order in which the names of a finite set can come.
Orders(S) ==
    {q \in [1..Cardinality(S) -> S] : \A i, j \in DOMAIN q : i # j => q[i] # q[j]}

----------------------------------------------------------------------------
(* What a call returns, and what it asked of the operating system.         *)

\* json.dumps({"content": text}), json.dumps({"error": str(e)}) and
\* json.dumps({"message": ...}).  msg is the fixed part of an error message,
\* text the content, or the path a message quotes.
Content(text) == [kind |-> "content", msg |-> "", text |-> text]
Error(msg, text) == [kind |-> "error", msg |-> msg, text |-> text]
Message(msg, text) == [kind |-> "message", msg |-> msg, text |-> text]
NoReturn == [kind |-> "none", msg |-> "", text |-> <<>>]

Call(name, path) == [call |-> name, path |-> path]
VCall(arg, res) == [arg |-> arg, res |-> res]

NoWrite == [pc |-> "idle"]
NoObs == [seen |-> "nothing", sent |-> 0, got |-> [kind |-> "ENOENT", data |-> <<>>]]
NoHist == [kind |-> "none"]
None == -1

\* The module's globals once the configuration block has run: the root the
\* tools work under, or the exception that ended the import.
Loading(config) == [state |-> "loading", config |-> config]
Serving(allowed_dir) == [state |-> "serving", ALLOWED_DIR |-> allowed_dir]
Exited(err) == [state |-> "failed", err |-> err]

\* The server is between calls: the last response has been sent.
Idle == conf.state = "serving" /\ op.name = "none"

\* os.stat / open / listdir on a path string: the node reached, following
\* links; "ENOENT" when there is none (a link loop counts as none here).
NodeAt(fsys, p) ==
    LET At(r) == IF r.ok /\ Exists(fsys, r.path) THEN fsys[r.path]
                 ELSE [kind |-> "ENOENT", data |-> <<>>, target |-> <<>>]
    IN  At(Reach(fsys, p))

\* os.path.isdir(p).
isdir(fsys, p) == NodeAt(fsys, p).kind = "dir"

DIRTAG == <<"[", "D", "I", "R", "]">>
FILETAG == <<"[", "F", "I", "L", "E", "]">>

----------------------------------------------------------------------------
(* list_directory.                                                         *)

\* The lines of the listing for the names in order, and the isdir calls
\* made for them.
ListLines(fsys, valid_path, order) ==
    [k \in DOMAIN order |->
        (IF isdir(fsys, PathJoin(valid_path, order[k])) THEN DIRTAG ELSE FILETAG)
        \o <<" ">> \o order[k]]

ListCalls(valid_path, order) ==
    [k \in DOMAIN order |-> Call("isdir", PathJoin(valid_path, order[k]))]

list_directory(p) ==
    LET Listing(v, order) ==
            /\ ret' = Content(JoinWith(ListLines(fs, v.path, order), <<NL>>))
            /\ oscalls' = <<Call("listdir", v.path)>> \o ListCalls(v.path, order)
        Serve(v) ==
            /\ vcalls' = <<VCall(p, v)>>
            /\ IF ~v.ok
               THEN /\ ret' = Error(v.err, v.quoted)
                    /\ oscalls' = <<>>
               ELSE IF NodeAt(fs, v.path).kind # "dir"
               THEN /\ ret' = Error("listdir failed", v.path)
                    /\ oscalls' = <<Call("listdir", v.path)>>
               ELSE \E order \in Orders(Children(fs, Reach(fs, v.path).path)) :
                        Listing(v, order)
    IN  /\ Idle
        /\ op' = [name |-> "list_directory", path |-> p]
        /\ fs0' = fs
        /\ UNCHANGED <<fs, cwd, conf, wr, obs, hist>>
        /\ Serve(validate_path(fs, cwd, p))

----------------------------------------------------------------------------
(* tail_file, head_file, read_file.                                        *)

chunk_size == 1024

Min(a, b) == IF a < b THEN a ELSE b

\* f.seek(position); f.read(size) on a file opened in text mode: size
\* characters of the decoded text that starts at byte position.
SeekRead(bytes, position, size) ==
    LET FirstOf(text) == SubSeq(text, 1, Min(size, Len(text)))
    IN  FirstOf(TextDecode(From(bytes, position)))

\* The last room elements of a sequence (all of them when it has fewer).
LastOf(seq, room) ==
    SubSeq(seq, IF Len(seq) > room THEN Len(seq) - room + 1 ELSE 1, Len(seq))

\* The while loop of tail_file.  lines_found is Len(lines): every line
\* inserted is counted.
RECURSIVE TailLoop(_, _, _, _, _)
TailLoop(bytes, num_lines, position, lines, remaining_text) ==
    IF ~(position > 0 /\ Len(lines) < num_lines) THEN lines
    ELSE LET size == Min(chunk_size, position)
             pos  == position - size
             Take(chunk_lines, carry) ==
                 TailLoop(bytes, num_lines, pos,
                          LastOf(chunk_lines, num_lines - Len(lines)) \o lines, carry)
             Split(all_lines) ==
                 IF pos > 0 THEN Take(Tail(all_lines), all_lines[1])
                 ELSE Take(all_lines, remaining_text)
         IN  Split(splitlines(normalize_line_endings(
                       SeekRead(bytes, pos, size) \o remaining_text)))

\* tail_file(file_path, num_lines) on a file that holds bytes.
tail_file(bytes, num_lines) ==
    IF Len(bytes) = 0 THEN <<>>
    ELSE JoinWith(TailLoop(bytes, num_lines, Len(bytes), <<>>, <<>>), <<NL>>)

\* head_file(file_path, num_lines): the text-mode iteration yields the
\* lines of the decoded text, each with its "\n"; rstrip("\n") removes it.
head_file(bytes, num_lines) ==
    LET FirstLines(all_lines) ==
            JoinWith(SubSeq(all_lines, 1, Min(num_lines, Len(all_lines))), <<NL>>)
    IN  IF num_lines <= 0 THEN <<>> ELSE FirstLines(splitlines(TextDecode(bytes)))

\* Python's truth of an Optional[int]: None and 0 are false.
Truthy(n) == n # None /\ n # 0

\* The OSError of open(path, "r") or os.stat(path) on what is there.
ReadErrno(node) ==
    IF node.kind = "ENOENT" THEN "No such file or directory"
    ELSE "Is a directory"

read_file(p, head, tail) ==
    LET Tail_(v, node) ==
            IF node.kind = "ENOENT"
            THEN /\ ret' = Error(ReadErrno(node), v.path)
                 /\ oscalls' = <<Call("stat", v.path)>>
            ELSE IF node.kind = "dir"
            THEN /\ ret' = Error(ReadErrno(node), v.path)
                 /\ oscalls' = <<Call("stat", v.path), Call("open", v.path)>>
            ELSE /\ ret' = Content(tail_file(node.data, tail))
                 /\ oscalls' = IF Len(node.data) = 0
                               THEN <<Call("stat", v.path)>>
                               ELSE <<Call("stat", v.path), Call("open", v.path)>>
        Open(v, node) ==
            /\ oscalls' = <<Call("open", v.path)>>
            /\ IF node.kind # "file" THEN ret' = Error(ReadErrno(node), v.path)
               ELSE IF Truthy(head) THEN ret' = Content(head_file(node.data, head))
               ELSE ret' = Content(TextDecode(node.data))
        Serve(v) ==
            /\ vcalls' = <<VCall(p, v)>>
            /\ IF ~v.ok
               THEN /\ ret' = Error(v.err, v.quoted)
                    /\ oscalls' = <<>>
               ELSE IF Truthy(tail) THEN Tail_(v, NodeAt(fs, v.path))
               ELSE Open(v, NodeAt(fs, v.path))
    IN  /\ Idle
        /\ op' = [name |-> "read_file", path |-> p, head |-> head, tail |-> tail]
        /\ fs0' = fs
        /\ UNCHANGED <<fs, cwd, conf, wr, obs, hist>>
        /\ IF Truthy(head) /\ Truthy(tail)
           THEN /\ ret' = Error("Cannot specify both head and tail parameters", <<>>)
                /\ oscalls' = <<>>
                /\ vcalls' = <<>>
           ELSE Serve(validate_path(fs, cwd, p))

----------------------------------------------------------------------------
(* apply_file_edits: the edits, the diff and its fence.                    *)

\* An EditOperation.
Edit(oldText, newText) == [oldText |-> oldText, newText |-> newText]

\* The outcome of a computation on text: the text, or the exception raised
\* (msg is the fixed part of its message, text the part it quotes).
Done(text) == [ok |-> TRUE, text |-> text, msg |-> ""]
Fail(msg, text) == [ok |-> FALSE, text |-> text, msg |-> msg]

\* all(old.strip() == content.strip() for old, content in
\*     zip(old_lines, content_lines[i:i + len(old_lines)])), i counted from 1.
WindowMatches(content_lines, old_lines, i) ==
    \A k \in 1..Len(old_lines) :
        Strip(old_lines[k], Whitespace) = Strip(content_lines[i + k - 1], Whitespace)

\* The highest index whose window matches, 0 when none does.
FirstWindow_Last(content_lines, old_lines) ==
    LET Highest(at) == IF at = {} THEN 0 ELSE CHOOSE i \in at : \A j \in at : j <= i
    IN  Highest({i \in 1..(Len(content_lines) - Len(old_lines) + 1) :
                     WindowMatches(content_lines, old_lines, i)})

\* The lowest index whose window matches, 0 when none does:
\* range(len(content_lines) - len(old_lines) + 1).
FirstWindow(content_lines, old_lines) ==
    LET Lowest(at) == IF at = {} THEN 0 ELSE CHOOSE i \in at : \A j \in at : i <= j
    IN  Lowest({i \in 1..(Len(content_lines) - Len(old_lines) + 1) :
                    WindowMatches(content_lines, old_lines, i)})

\* No indentation taken over.
BeforeFirst_Nothing(line, sep) == <<>>

\* line.split(sep)[0]: what comes before the first occurrence of sep.
BeforeFirst(line, sep) ==
    LET Cut(at) == IF at = 0 THEN line ELSE SubSeq(line, 1, at - 1)
    IN  Cut(Find(line, sep))

\* The body of the loop with an edit whose newText has no line taken as the
\* removal of the window.
ApplyEdit_EmptyRemoves(modified_content, edit) ==
    LET At(content_lines, old_lines, new_lines, i) ==
            IF i = 0 THEN Fail("Could not find exact match for edit", edit.oldText)
            ELSE IF old_lines = <<>> THEN Fail("list index out of range", <<>>)
            ELSE IF Strip(old_lines[1], Whitespace) = <<>>
                THEN Fail("empty separator", <<>>)
            ELSE IF new_lines = <<>>
                THEN Done(JoinWith(SubSeq(content_lines, 1, i - 1)
                                   \o SubSeq(content_lines, i + Len(old_lines),
                                             Len(content_lines)), <<NL>>))
            ELSE Done(JoinWith(SubSeq(content_lines, 1, i - 1)
                               \o <<BeforeFirst(content_lines[i],
                                                Strip(old_lines[1], Whitespace))
                                    \o LStrip(new_lines[1], Whitespace)>>
                               \o Tail(new_lines)
                               \o SubSeq(content_lines, i + Len(old_lines),
                                         Len(content_lines)), <<NL>>))
        Search(content_lines, old_lines) ==
            At(content_lines, old_lines,
               splitlines(normalize_line_endings(edit.newText)),
               FirstWindow(content_lines, old_lines))
    IN  Search(splitlines(modified_content),
               splitlines(normalize_line_endings(edit.oldText)))

\* The body of the loop over the edits for one edit: the content with the
\* first matching window replaced, or the exception.  A window of no lines
\* matches at once and old_lines[0] raises IndexError; so does new_lines[0]
\* when newText has no line; split("") raises ValueError.
ApplyEdit(modified_content, edit) ==
    LET Splice(content_lines, old_lines, new_lines, i, original_indent) ==
            Done(JoinWith(SubSeq(content_lines, 1, i - 1)
                          \o <<original_indent \o LStrip(new_lines[1], Whitespace)>>
                          \o Tail(new_lines)
                          \o SubSeq(content_lines, i + Len(old_lines), Len(content_lines)),
                          <<NL>>))
        At(content_lines, old_lines, new_lines, i) ==
            IF i = 0 THEN Fail("Could not find exact match for edit", edit.oldText)
            ELSE IF old_lines = <<>> THEN Fail("list index out of range", <<>>)
            ELSE IF Strip(old_lines[1], Whitespace) = <<>>
                THEN Fail("empty separator", <<>>)
            ELSE IF new_lines = <<>> THEN Fail("list index out of range", <<>>)
            ELSE Splice(content_lines, old_lines, new_lines, i,
                        BeforeFirst(content_lines[i], Strip(old_lines[1], Whitespace)))
        Search(content_lines, old_lines) ==
            At(content_lines, old_lines,
               splitlines(normalize_line_endings(edit.newText)),
               FirstWindow(content_lines, old_lines))
    IN  Search(splitlines(modified_content),
               splitlines(normalize_line_endings(edit.oldText)))

\* The loop over the edits with a miss skipped instead of raised.
RECURSIVE EditLoop_SkipMiss(_, _)
EditLoop_SkipMiss(modified_content, edits) ==
    IF edits = <<>> THEN Done(modified_content)
    ELSE LET Then(r) == IF ~r.ok THEN EditLoop_SkipMiss(modified_content, Tail(edits))
                        ELSE EditLoop_SkipMiss(r.text, Tail(edits))
         IN  Then(ApplyEdit(modified_content, Head(edits)))

\* for edit in edits: each edit works on what the edits before it left; the
\* first exception ends the loop.
RECURSIVE EditLoop(_, _)
EditLoop(modified_content, edits) ==
    IF edits = <<>> THEN Done(modified_content)
    ELSE LET Then(r) == IF ~r.ok THEN r ELSE EditLoop(r.text, Tail(edits))
         IN  Then(ApplyEdit(modified_content, Head(edits)))

\* The number of leading elements two sequences of lines share.
CommonPrefix(a, b) ==
    LET diff == {i \in 1..Min(Len(a), Len(b)) : a[i] # b[i]}
    IN  IF diff = {} THEN Min(Len(a), Len(b))
        ELSE (CHOOSE i \in diff : \A j \in diff : i <= j) - 1

Reverse(q) == [i \in 1..Len(q) |-> q[Len(q) + 1 - i]]

\* A small number in decimal.
Digits == <<"0", "1", "2", "3", "4", "5", "6", "7", "8", "9">>
RECURSIVE Decimal(_)
Decimal(n) == IF n < 10 THEN <<Digits[n + 1]>>
              ELSE Decimal(n \div 10) \o <<Digits[(n % 10) + 1]>>

\* difflib._format_range_unified(start, stop).
FormatRange(start, stop) ==
    IF stop - start = 1 THEN Decimal(start + 1)
    ELSE Decimal(IF stop = start THEN start ELSE start + 1)
         \o <<",">> \o Decimal(stop - start)

Prefixed(c, lines) == [k \in DOMAIN lines |-> <<c>> \o lines[k]]

CONTEXT_LINES == 3

\* create_unified_diff, with difflib.unified_diff taken as one hunk: the
\* lines between the longest common prefix and suffix are removed and added,
\* with up to n = 3 lines of context on either side; nothing when the two
\* texts have the same lines.  (How SequenceMatcher aligns lines inside the
\* changed span, and splits distant changes into hunks, is left out.)
create_unified_diff(original, modified, filepath) ==
    LET Hunk(a, b, pre, suf) ==
            LET lo  == IF pre > CONTEXT_LINES THEN pre - CONTEXT_LINES ELSE 0
                ahi == Min(Len(a), Len(a) - suf + CONTEXT_LINES)
                bhi == Min(Len(b), Len(b) - suf + CONTEXT_LINES)
            IN  << <<"-", "-", "-", " ">> \o filepath
                       \o <<"\t", "o", "r", "i", "g", "i", "n", "a", "l", NL>>,
                   <<"+", "+", "+", " ">> \o filepath
                       \o <<"\t", "m", "o", "d", "i", "f", "i", "e", "d", NL>>,
                   <<"@", "@", " ", "-">> \o FormatRange(lo, ahi) \o <<" ", "+">>
                       \o FormatRange(lo, bhi) \o <<" ", "@", "@", NL>> >>
                \o Prefixed(" ", SubSeq(a, lo + 1, pre))
                \o Prefixed("-", SubSeq(a, pre + 1, Len(a) - suf))
                \o Prefixed("+", SubSeq(b, pre + 1, Len(b) - suf))
                \o Prefixed(" ", SubSeq(a, Len(a) - suf + 1, ahi))
        Trim(a, b, pre) ==
            Hunk(a, b, pre, CommonPrefix(Reverse(From(a, pre)), Reverse(From(b, pre))))
        Compare(a, b) ==
            IF a = b THEN <<>> ELSE JoinWith(Trim(a, b, CommonPrefix(a, b)), <<NL>>)
    IN  Compare(splitlines(normalize_line_endings(original)),
                splitlines(normalize_line_endings(modified)))

\* The backtick character (U+0060) and three of them.
BACKTICK == "\\x60"
FENCE_UNIT == <<BACKTICK, BACKTICK, BACKTICK>>

\* num_backticks left at its first value.
NumBackticks_Unraised(diff, num_backticks) == num_backticks

\* The smallest num_backticks >= 3 with FENCE_UNIT * num_backticks not in diff.
RECURSIVE NumBackticks(_, _)
NumBackticks(diff, num_backticks) ==
    IF Contains(diff, Repeat(FENCE_UNIT, num_backticks))
    THEN NumBackticks(diff, num_backticks + 1)
    ELSE num_backticks

\* formatted_diff.
FormatDiff(diff) ==
    LET Fenced(fence) == fence \o <<"d", "i", "f", "f", NL>> \o diff \o <<NL>>
                         \o fence \o <<NL>>
    IN  Fenced(Repeat(FENCE_UNIT, NumBackticks(diff, 3)))

\* The content persisted whatever dry_run says.
Persists_Always(dry_run) == TRUE

\* if not dry_run.
Persists(dry_run) == ~dry_run

----------------------------------------------------------------------------
(* write_file and edit_file.  A write goes through a temporary file next   *)
(* to its target: the handler opens it, the data reaches it piece by       *)
(* piece, and a rename puts it in place.  Between these steps other        *)
(* processes run.                                                          *)

\* f"{valid_path}.{secrets.token_hex(16)}.tmp"; token stands for the hex
\* digits drawn.
TMP == <<".", "t", "m", "p">>

\* The write made on the target itself.
temp_path_InPlace(valid_path, token) == valid_path

\* The temporary file named without the token.
temp_path_NoToken(valid_path, token) == valid_path \o TMP

temp_path(valid_path, token) == valid_path \o <<".">> \o token \o TMP

\* What a process that opens path and reads it to the end gets.
Snapshot(fsys, path) ==
    LET Of(node) == [kind |-> node.kind, data |-> node.data]
    IN  Of(NodeAt(fsys, path))

\* The state of a write under way: the target and its temporary file, the
\* inode the handler holds open (fd, a physical path), the bytes to write
\* and how many have reached the file, whether a failure unlinks the
\* temporary file, what the call returns on success, and what the target
\* held when the call began.
Writing(kind, valid_path, temp, fd, text, cleanup, result, prior) ==
    [pc |-> "writing", kind |-> kind, path |-> valid_path, temp |-> temp, fd |-> fd,
     text |-> text, bytes |-> TextEncode(text), sent |-> 0, cleanup |-> cleanup,
     result |-> result, prior |-> prior]

\* A call that ended before it had a temporary file open.
Ended(pc, kind, valid_path, prior) ==
    [pc |-> pc, kind |-> kind, path |-> valid_path, temp |-> <<>>, fd |-> <<>>,
     text |-> <<>>, bytes |-> <<>>, sent |-> 0, cleanup |-> FALSE,
     result |-> NoReturn, prior |-> prior]

\* os.unlink(temp_path) inside try/except: the name is removed when it is
\* there and is no directory; any failure is swallowed.
Unlinked(fsys, temp) ==
    LET Drop(t) == IF t.ok /\ Exists(fsys, t.path) /\ ~IsKind(fsys, t.path, "dir")
                   THEN Remove(fsys, t.path) ELSE fsys
    IN  Drop(ReachNoFollow(fsys, temp))

\* What is in the history: the last successful write and what it wrote, or
\* the last dry run of an edit, the bytes it read and what it returned.
Wrote(valid_path, content) == [kind |-> "wrote", path |-> valid_path, content |-> content]
DryRan(valid_path, before, edits, out) ==
    [kind |-> "dry", path |-> valid_path, before |-> before, edits |-> edits, out |-> out]

write_file(p, content, token) ==
    LET Retry(v, temp, t) ==
            \* except FileExistsError: open(temp_path, "w")
            IF ~IsKind(fs, t.path, "file")
            THEN /\ ret' = Error("[Errno 21] Is a directory", temp)
                 /\ wr' = Ended("failed", "write", v.path, Snapshot(fs, v.path))
                 /\ fs' = fs
            ELSE /\ ret' = NoReturn
                 /\ wr' = Writing("write", v.path, temp, t.path, content, FALSE,
                                  Message("Successfully wrote to", p), Snapshot(fs, v.path))
                 /\ fs' = Put(fs, t.path, File(<<>>))
        Open(v, temp, t) ==
            \* open(temp_path, "x")
            /\ oscalls' = <<Call("open", temp)>>
            /\ IF ~t.ok \/ ~ParentIsDir(fs, t.path)
               THEN /\ ret' = Error("[Errno 2] No such file or directory", temp)
                    /\ wr' = Ended("failed", "write", v.path, Snapshot(fs, v.path))
                    /\ fs' = fs
               ELSE IF Exists(fs, t.path) THEN Retry(v, temp, t)
               ELSE /\ ret' = NoReturn
                    /\ wr' = Writing("write", v.path, temp, t.path, content, TRUE,
                                     Message("Successfully wrote to", p),
                                     Snapshot(fs, v.path))
                    /\ fs' = Put(fs, t.path, File(<<>>))
        Begin(v, temp) == Open(v, temp, ReachNoFollow(fs, temp))
        Serve(v) ==
            /\ vcalls' = <<VCall(p, v)>>
            /\ IF ~v.ok
               THEN /\ ret' = Error(v.err, v.quoted)
                    /\ oscalls' = <<>>
                    /\ UNCHANGED <<fs, wr>>
               ELSE Begin(v, temp_path(v.path, token))
    IN  /\ Idle
        /\ op' = [name |-> "write_file", path |-> p, content |-> content]
        /\ fs0' = fs
        /\ hist' = NoHist
        /\ UNCHANGED <<cwd, conf, obs>>
        /\ Serve(validate_path(fs, cwd, p))

edit_file(p, edits, dryRun, token) ==
    LET Open(v, node, temp, t, r, formatted_diff) ==
            \* open(temp_path, "w")
            /\ oscalls' = <<Call("open", v.path), Call("open", temp)>>
            /\ IF ~t.ok \/ ~ParentIsDir(fs, t.path) \/ IsKind(fs, t.path, "dir")
               THEN /\ ret' = Error("[Errno 21] Is a directory", temp)
                    /\ wr' = Ended("failed", "edit", v.path, Snapshot(fs, v.path))
                    /\ fs' = fs
               ELSE /\ ret' = NoReturn
                    /\ wr' = Writing("edit", v.path, temp, t.path, r.text, TRUE,
                                     Content(formatted_diff), Snapshot(fs, v.path))
                    /\ fs' = Put(fs, t.path, File(<<>>))
        Diffed(v, node, r, formatted_diff) ==
            IF ~Persists(dryRun)
            THEN /\ ret' = Content(formatted_diff)
                 /\ oscalls' = <<Call("open", v.path)>>
                 /\ hist' = DryRan(v.path, node.data, edits, ret')
                 /\ UNCHANGED <<fs, wr>>
            ELSE /\ hist' = IF hist.kind = "dry" THEN hist ELSE NoHist
                 /\ Open(v, node, temp_path(v.path, token),
                         Reach(fs, temp_path(v.path, token)), r, formatted_diff)
        Edited(v, node, content, r) ==
            IF ~r.ok
            THEN /\ ret' = Error(r.msg, r.text)
                 /\ oscalls' = <<Call("open", v.path)>>
                 /\ hist' = IF Persists(dryRun) THEN hist
                            ELSE DryRan(v.path, node.data, edits, ret')
                 /\ UNCHANGED <<fs, wr>>
            ELSE Diffed(v, node, r,
                        FormatDiff(create_unified_diff(content, r.text, v.path)))
        Read(v, node) ==
            IF node.kind # "file"
            THEN /\ ret' = Error(ReadErrno(node), v.path)
                 /\ oscalls' = <<Call("open", v.path)>>
                 /\ UNCHANGED <<fs, wr, hist>>
            ELSE Edited(v, node, normalize_line_endings(TextDecode(node.data)),
                        EditLoop(normalize_line_endings(TextDecode(node.data)), edits))
        Serve(v) ==
            /\ vcalls' = <<VCall(p, v)>>
            /\ IF ~v.ok
               THEN /\ ret' = Error(v.err, v.quoted)
                    /\ oscalls' = <<>>
                    /\ UNCHANGED <<fs, wr, hist>>
               ELSE Read(v, NodeAt(fs, v.path))
    IN  /\ Idle
        /\ op' = [name |-> "edit_file", path |-> p, edits |-> edits, dryRun |-> dryRun]
        /\ fs0' = fs
        /\ UNCHANGED <<cwd, conf, obs>>
        /\ Serve(validate_path(fs, cwd, p))

\* f.write / close: some more of the bytes reach the temporary file.
WriteData ==
    /\ wr.pc = "writing"
    /\ wr.sent < Len(wr.bytes)
    /\ \E k \in (wr.sent + 1)..Len(wr.bytes) :
          /\ wr' = [wr EXCEPT !.sent = k]
          /\ fs' = IF Exists(fs, wr.fd)
                   THEN Put(fs, wr.fd, File(SubSeq(wr.bytes, 1, k))) ELSE fs
    /\ UNCHANGED <<cwd, conf, op, ret, oscalls, vcalls, fs0, obs, hist>>

\* os.rename(temp_path, valid_path) once the file is closed, and the return
\* of the call; when the rename fails, the handler's cleanup.
Rename ==
    LET Failed(msg) ==
            /\ ret' = Error(msg, wr.temp)
            /\ wr' = [wr EXCEPT !.pc = "failed"]
            /\ fs' = IF wr.cleanup THEN Unlinked(fs, wr.temp) ELSE fs
            /\ hist' = hist
        Move(src, dst) ==
            IF ~src.ok \/ ~Exists(fs, src.path)
            THEN Failed("[Errno 2] No such file or directory")
            ELSE IF IsKind(fs, dst.path, "dir") THEN Failed("[Errno 21] Is a directory")
            ELSE /\ ret' = wr.result
                 /\ wr' = [wr EXCEPT !.pc = "done"]
                 /\ fs' = IF src.path = dst.path THEN fs
                          ELSE Put(Remove(fs, src.path), dst.path, fs[src.path])
                 /\ hist' = IF wr.kind = "write" THEN Wrote(wr.path, wr.text)
                            ELSE IF hist.kind = "dry" THEN hist ELSE NoHist
    IN  /\ wr.pc = "writing"
        /\ wr.sent = Len(wr.bytes)
        /\ oscalls' = Append(oscalls, Call("rename", wr.path))
        /\ Move(ReachNoFollow(fs, wr.temp), ReachNoFollow(fs, wr.path))
        /\ UNCHANGED <<cwd, conf, op, vcalls, fs0, obs>>

\* The write or the close raises OSError (no space left, an I/O error): the
\* handler's except branch runs and the call returns the error.
WriteFails ==
    /\ wr.pc = "writing"
    /\ ret' = Error("[Errno 28] No space left on device", wr.temp)
    /\ wr' = [wr EXCEPT !.pc = "failed"]
    /\ fs' = IF wr.cleanup THEN Unlinked(fs, wr.temp) ELSE fs
    /\ UNCHANGED <<cwd, conf, op, oscalls, vcalls, fs0, obs, hist>>

\* Another process opens the target of the write under way and reads it.
ReaderOpens ==
    /\ wr.pc # "idle"
    /\ obs.seen = "nothing"
    /\ obs' = [seen |-> wr.pc, sent |-> wr.sent, got |-> Snapshot(fs, wr.path)]
    /\ UNCHANGED <<fs, cwd, conf, op, ret, oscalls, vcalls, fs0, wr, hist>>

----------------------------------------------------------------------------
(* move_file and create_directory.                                         *)

\* An operating-system call that names two paths.
CallTo(name, path, to) == [call |-> name, path |-> path, to |-> to]

\* What a call that changes the filesystem gives: the filesystem after it,
\* or the OSError raised and the filesystem as it was.
Changed(fsys) == [err |-> "", fs |-> fsys]
OSError(msg, fsys) == [err |-> msg, fs |-> fsys]

\* phys is root or lies under it.
Under(phys, root) ==
    Len(phys) >= Len(root) /\ SubSeq(phys, 1, Len(root)) = root

\* The filesystem with the subtree at src moved to dst, whatever was at dst
\* replaced.
Moved(fsys, src, dst) ==
    LET kept == {q \in DOMAIN fsys : ~Under(q, src) /\ ~Under(q, dst)}
        moved == {dst \o SubSeq(q, Len(src) + 1, Len(q)) :
                    q \in {r \in DOMAIN fsys : Under(r, src)}}
    IN  [q \in kept \cup moved |->
            IF Under(q, dst) THEN fsys[src \o SubSeq(q, Len(dst) + 1, Len(q))]
            ELSE fsys[q]]

\* os.rename(src, dst): rename(2).  Neither last name is followed.
os_rename(fsys, src, dst) ==
    LET Do(s, d) ==
            IF ~s.ok \/ ~d.ok \/ ~Exists(fsys, s.path) \/ ~Exists(fsys, DropLast(d.path))
                THEN OSError("[Errno 2] No such file or directory", fsys)
            ELSE IF ~ParentIsDir(fsys, d.path)
                THEN OSError("[Errno 20] Not a directory", fsys)
            ELSE IF s.path = d.path THEN Changed(fsys)
            ELSE IF Under(d.path, s.path) THEN OSError("[Errno 22] Invalid argument", fsys)
            ELSE IF fsys[s.path].kind = "dir" /\ Exists(fsys, d.path)
                    /\ fsys[d.path].kind # "dir"
                THEN OSError("[Errno 20] Not a directory", fsys)
            ELSE IF fsys[s.path].kind # "dir" /\ IsKind(fsys, d.path, "dir")
                THEN OSError("[Errno 21] Is a directory", fsys)
            ELSE IF IsKind(fsys, d.path, "dir") /\ Children(fsys, d.path) # {}
                THEN OSError("[Errno 39] Directory not empty", fsys)
            ELSE Changed(Moved(fsys, s.path, d.path))
    IN  IF ToComps(src) = <<>> \/ ToComps(dst) = <<>>
            THEN OSError("[Errno 16] Device or resource busy", fsys)
        ELSE Do(ReachNoFollow(fsys, src), ReachNoFollow(fsys, dst))

\* The second validate_path of move_file, left out.
validate_destination_Unchecked(fsys, wd, destination) ==
    Ok(normalize_path(wd, destination))

\* valid_dest = validate_path(parsed.destination).
validate_destination(fsys, wd, destination) ==
    validate_path(fsys, wd, destination)

move_file(source, destination) ==
    LET Renamed(s, d, r) ==
            /\ oscalls' = <<CallTo("rename", s.path, d.path)>>
            /\ fs' = r.fs
            /\ ret' = IF r.err # "" THEN Error(r.err, s.path)
                      ELSE Message("Successfully moved", source)
        To(s, d) ==
            /\ vcalls' = <<VCall(source, s), VCall(destination, d)>>
            /\ IF ~d.ok
               THEN /\ ret' = Error(d.err, d.quoted)
                    /\ oscalls' = <<>>
                    /\ fs' = fs
               ELSE Renamed(s, d, os_rename(fs, s.path, d.path))
        From_(s) ==
            IF ~s.ok
            THEN /\ vcalls' = <<VCall(source, s)>>
                 /\ ret' = Error(s.err, s.quoted)
                 /\ oscalls' = <<>>
                 /\ fs' = fs
            ELSE To(s, validate_destination(fs, cwd, destination))
    IN  /\ Idle
        /\ op' = [name |-> "move_file", source |-> source, destination |-> destination]
        /\ fs0' = fs
        /\ UNCHANGED <<cwd, conf, wr, obs, hist>>
        /\ From_(validate_path(fs, cwd, source))

\* os.makedirs(name, exist_ok=True): the missing directories of the path
\* are made from the top; a name on the way that is not a directory, or a
\* last name that exists and is not one, raises.
makedirs(fsys, name) ==
    LET Make(r) ==
            LET prefixes == {SubSeq(r.path, 1, k) : k \in 0..Len(r.path)}
                made == {q \in prefixes : ~Exists(fsys, q)}
            IN  IF ~r.ok THEN OSError("[Errno 40] Too many levels of symbolic links", fsys)
                ELSE IF \E q \in prefixes \ {r.path} : Exists(fsys, q) /\ fsys[q].kind # "dir"
                    THEN OSError("[Errno 20] Not a directory", fsys)
                ELSE IF Exists(fsys, r.path) /\ fsys[r.path].kind # "dir"
                    THEN OSError("[Errno 17] File exists", fsys)
                ELSE Changed([q \in DOMAIN fsys \cup made |->
                                IF q \in made THEN Dir ELSE fsys[q]])
    IN  Make(Reach(fsys, name))

create_directory(p) ==
    LET Made(v, r) ==
            /\ oscalls' = <<Call("makedirs", v.path)>>
            /\ fs' = r.fs
            /\ ret' = IF r.err # "" THEN Error(r.err, v.path)
                      ELSE Message("Successfully created directory", p)
        Serve(v) ==
            /\ vcalls' = <<VCall(p, v)>>
            /\ IF ~v.ok
               THEN /\ ret' = Error(v.err, v.quoted)
                    /\ oscalls' = <<>>
                    /\ fs' = fs
               ELSE Made(v, makedirs(fs, v.path))
    IN  /\ Idle
        /\ op' = [name |-> "create_directory", path |-> p]
        /\ fs0' = fs
        /\ UNCHANGED <<cwd, conf, wr, obs, hist>>
        /\ Serve(validate_path(fs, cwd, p))

----------------------------------------------------------------------------
(* search_files: the helper of lines 191-205 and the tool of lines 483-492 *)
(* that is defined later under the same name.                              *)

UpperCase == <<"A", "B", "C", "D", "E", "F", "G", "H", "I", "J", "K", "L", "M",
               "N", "O", "P", "Q", "R", "S", "T", "U", "V", "W", "X", "Y", "Z">>
LowerCase == <<"a", "b", "c", "d", "e", "f", "g", "h", "i", "j", "k", "l", "m",
               "n", "o", "p", "q", "r", "s", "t", "u", "v", "w", "x", "y", "z">>

\* str.lower().
lower(s) ==
    [i \in DOMAIN s |->
        IF \E k \in DOMAIN UpperCase : UpperCase[k] = s[i]
        THEN LowerCase[CHOOSE k \in DOMAIN UpperCase : UpperCase[k] = s[i]]
        ELSE s[i]]

\* fnmatch.fnmatch(name, pat) for patterns of plain characters, "?" and "*".
RECURSIVE fnmatch(_, _)
fnmatch(name, pat) ==
    IF pat = <<>> THEN name = <<>>
    ELSE IF Head(pat) = "*"
        THEN fnmatch(name, Tail(pat)) \/ (name # <<>> /\ fnmatch(Tail(name), pat))
    ELSE /\ name # <<>>
         /\ (Head(pat) = "?" \/ Head(pat) = Head(name))
         /\ fnmatch(Tail(name), Tail(pat))

\* The directories os.walk(root_path) visits: the one at root_path and the
\* directories below it, none of them reached through a link (followlinks
\* is False), each as the names that lead to it from root_path.
WalkDirs(fsys, root) ==
    {SubSeq(q, Len(root) + 1, Len(q)) :
        q \in {r \in DOMAIN fsys :
                 /\ Under(r, root)
                 /\ \A k \in Len(root)..Len(r) : IsKind(fsys, SubSeq(r, 1, k), "dir")}}

\* The helper search_files(root_path, pattern, exclude_patterns): the full
\* paths it collects (as a set: os.walk gives them in directory order).
search_files_helper(fsys, wd, root_path, pattern, exclude_patterns) ==
    LET RootOf(rel) == IF rel = <<>> THEN root_path
                       ELSE PathJoin(root_path, JoinWith(rel, <<SEP>>))
        Keeps(rel, file) ==
            /\ ~isdir(fsys, PathJoin(RootOf(rel), file))
            /\ ~\E exclude \in exclude_patterns :
                   fnmatch(JoinWith(Append(rel, file), <<SEP>>), exclude)
            /\ Contains(lower(file), lower(pattern))
        Walk(top) ==
            UNION {{PathJoin(RootOf(rel), file) :
                        file \in {f \in Children(fsys, top \o rel) : Keeps(rel, f)}} :
                   rel \in {r \in WalkDirs(fsys, top) :
                               is_path_within_allowed_directory(wd, RootOf(r), ALLOWED_DIR)}}
    IN  Walk(Reach(fsys, root_path).path)

\* The tool search_files(args).  Its def statement rebinds the module's
\* name search_files, so the call of line 489, written for the helper,
\* reaches the tool itself (or the tool object the decorator put in its
\* place) with three positional arguments and raises TypeError.
search_files(p, pattern, excludePatterns) ==
    LET Serve(v) ==
            /\ vcalls' = <<VCall(p, v)>>
            /\ oscalls' = <<>>
            /\ ret' = IF ~v.ok THEN Error(v.err, v.quoted)
                      ELSE Error("TypeError", <<>>)
    IN  /\ Idle
        /\ op' = [name |-> "search_files", path |-> p, pattern |-> pattern,
                  excludePatterns |-> excludePatterns]
        /\ fs0' = fs
        /\ UNCHANGED <<fs, cwd, conf, wr, obs, hist>>
        /\ Serve(validate_path(fs, cwd, p))

----------------------------------------------------------------------------
(* read_multiple_files.                                                    *)

\* str(e) inside a text: the fixed part of the message as one symbol, then
\* the path the message names.
StrOf(msg, quoted) == <<msg>> \o quoted

ResultsSeparator == <<NL, "-", "-", "-", NL>>
ErrorMark == <<":", " ", "E", "r", "r", "o", "r", " ", "-", " ">>

\* One pass of the loop over parsed.paths: the entry appended to results.
ReadEntry(fsys, wd, file_path) ==
    LET Read(v, node) ==
            IF node.kind # "file"
                THEN file_path \o ErrorMark \o StrOf(ReadErrno(node), v.path)
            ELSE file_path \o <<":", NL>> \o TextDecode(node.data) \o <<NL>>
        Entry(v) ==
            IF ~v.ok THEN file_path \o ErrorMark \o StrOf(v.err, v.quoted)
            ELSE Read(v, NodeAt(fsys, v.path))
    IN  Entry(validate_path(fsys, wd, file_path))

\* The loop with the exception of a path left to end it: the results
\* gathered before the first path that fails.
ReadEntries_UntilError(fsys, wd, paths) ==
    LET Good(i) == LET v == validate_path(fsys, wd, paths[i])
                   IN  v.ok /\ NodeAt(fsys, v.path).kind = "file"
        n == IF \A i \in DOMAIN paths : Good(i) THEN Len(paths)
             ELSE (CHOOSE i \in DOMAIN paths : ~Good(i) /\ \A j \in 1..(i - 1) : Good(j)) - 1
    IN  [i \in 1..n |-> ReadEntry(fsys, wd, paths[i])]

\* results after the loop: one entry for each path, in the order given.
ReadEntries(fsys, wd, paths) ==
    [i \in DOMAIN paths |-> ReadEntry(fsys, wd, paths[i])]

read_multiple_files(paths) ==
    LET Opens(vs) ==
            [i \in DOMAIN vs |-> Call("open", vs[i].res.path)]
        Serve(vs) ==
            /\ vcalls' = vs
            /\ oscalls' = SelectSeq(Opens(vs), LAMBDA c : c.path # <<>>)
    IN  /\ Idle
        /\ op' = [name |-> "read_multiple_files", paths |-> paths]
        /\ fs0' = fs
        /\ UNCHANGED <<fs, cwd, conf, wr, obs, hist>>
        /\ Serve([i \in DOMAIN paths |-> VCall(paths[i], validate_path(fs, cwd, paths[i]))])
        /\ ret' = Content(JoinWith(ReadEntries(fs, cwd, paths), ResultsSeparator))

----------------------------------------------------------------------------
(* format_size and list_directory_with_sizes.                              *)

\* The characters of names in the order of their code points.
CodePoints == <<" ", ".", "0", "1", "2", "3", "4", "5", "6", "7", "8", "9">>
              \o UpperCase \o <<"_">> \o LowerCase
ord(c) == CHOOSE k \in DOMAIN CodePoints : CodePoints[k] = c

\* a < b for two strings, as Python compares them.
RECURSIVE StrLess(_, _)
StrLess(a, b) ==
    IF b = <<>> THEN FALSE
    ELSE IF a = <<>> THEN TRUE
    ELSE IF Head(a) = Head(b) THEN StrLess(Tail(a), Tail(b))
    ELSE ord(Head(a)) < ord(Head(b))

\* str.ljust(width) and str.rjust(width).
ljust(str, width) == str \o Repeat(<<" ">>, IF Len(str) < width THEN width - Len(str) ELSE 0)
rjust(str, width) == Repeat(<<" ">>, IF Len(str) < width THEN width - Len(str) ELSE 0) \o str

\* int.bit_length().
bit_length(n) == CHOOSE k \in 0..64 : n < 2 ^ k /\ (k = 0 \/ 2 ^ (k - 1) <= n)

units == <<<<"B">>, <<"K", "B">>, <<"M", "B">>, <<"G", "B">>, <<"T", "B">>>>

\* f"{x:.2f}" for x = num / den: the nearest hundredth, the even one of two
\* that are equally near.
Fixed2(num, den) ==
    LET Render(h) == Decimal(h \div 100) \o <<".">> \o Decimal((h % 100) \div 10)
                     \o Decimal(h % 10)
        Round(q, r) == IF 2 * r > den \/ (2 * r = den /\ q % 2 = 1) THEN q + 1 ELSE q
    IN  Render(Round((100 * num) \div den, (100 * num) % den))

\* format_size(bytes), for sizes below 1024 ** 5.
format_size(bytes) ==
    LET Scaled(i) == IF i = 0 THEN Decimal(bytes) \o <<" ">> \o units[i + 1]
                     ELSE Fixed2(bytes, 1024 ^ i) \o <<" ">> \o units[i + 1]
    IN  IF bytes = 0 THEN <<"0", " ", "B">>
        ELSE Scaled(bit_length(bytes) \div 10)

\* An operating-system call with what it returned.
CallOf(name, path, result) == [call |-> name, path |-> path, result |-> result]

\* st_size of a directory: what the filesystem reports for it, nothing for
\* an empty directory on some, a few bytes for each entry on others, a
\* whole block on others.
DirSizes == {0, 6, 4096}

\* The entry made for a name: os.stat follows links; when it raises (the
\* name is a link that leads nowhere) the size is 0.
StatEntry(fsys, valid_path, entry, dir_size) ==
    LET Of(node) == [name |-> entry,
                     isDirectory |-> node.kind = "dir",
                     size |-> IF node.kind = "dir" THEN dir_size
                              ELSE IF node.kind = "file" THEN Len(node.data)
                              ELSE 0]
    IN  Of(NodeAt(fsys, PathJoin(valid_path, entry)))

\* entries.sort(key=..., reverse=...): a stable sort; with reverse the
\* entries of equal key keep their order too.
SortKeyLess(sortBy, a, b) ==
    IF sortBy = "size" THEN a.size > b.size ELSE StrLess(a.name, b.name)

SortEntries(entries, sortBy) ==
    LET Before(i, j) == \/ SortKeyLess(sortBy, entries[i], entries[j])
                        \/ (~SortKeyLess(sortBy, entries[j], entries[i]) /\ i < j)
        Rank(i) == 1 + Cardinality({j \in DOMAIN entries : Before(j, i)})
    IN  [k \in DOMAIN entries |-> entries[CHOOSE i \in DOMAIN entries : Rank(i) = k]]

FormatEntry(e) ==
    (IF e.isDirectory THEN DIRTAG ELSE FILETAG) \o <<" ">> \o ljust(e.name, 30) \o <<" ">>
    \o (IF e.isDirectory THEN <<>> ELSE rjust(format_size(e.size), 10))

RECURSIVE SumSizes(_)
SumSizes(entries) ==
    IF entries = <<>> THEN 0 ELSE Head(entries).size + SumSizes(Tail(entries))

IsFileEntry(e) == ~e.isDirectory
IsDirEntry(e) == e.isDirectory

\* total_size with the directories counted in.
total_size_AllEntries(entries) == SumSizes(entries)

\* total_size = sum(e["size"] for e in entries if not e["isDirectory"]).
total_size(entries) == SumSizes(SelectSeq(entries, IsFileEntry))

TotalWord == <<"T", "o", "t", "a", "l", ":", " ">>
FilesWord == <<" ", "f", "i", "l", "e", "s", ",", " ">>
DirectoriesWord == <<" ", "d", "i", "r", "e", "c", "t", "o", "r", "i", "e", "s">>
CombinedWord == <<"C", "o", "m", "b", "i", "n", "e", "d", " ", "s", "i", "z", "e", ":", " ">>

\* The text of the listing for the names in the order os.listdir gave them.
SizedListing(fsys, valid_path, order, sortBy, dir_size) ==
    LET Text(sorted, all) ==
            JoinWith([k \in DOMAIN sorted |-> FormatEntry(sorted[k])]
                     \o << <<>>,
                           TotalWord \o Decimal(Len(SelectSeq(all, IsFileEntry))) \o FilesWord
                           \o Decimal(Len(SelectSeq(all, IsDirEntry))) \o DirectoriesWord,
                           CombinedWord \o format_size(total_size(all)) >>,
                     <<NL>>)
        Of(entries) == Text(SortEntries(entries, sortBy), entries)
    IN  Of([k \in DOMAIN order |-> StatEntry(fsys, valid_path, order[k], dir_size)])

list_directory_with_sizes(p, sortBy) ==
    LET Listing(v, order, dir_size) ==
            /\ ret' = Content(SizedListing(fs, v.path, order, sortBy, dir_size))
            /\ oscalls' = <<CallOf("listdir", v.path, order)>>
                          \o [k \in DOMAIN order |->
                                CallOf("stat", PathJoin(v.path, order[k]),
                                       StatEntry(fs, v.path, order[k], dir_size).size)]
        Serve(v) ==
            /\ vcalls' = <<VCall(p, v)>>
            /\ IF ~v.ok
               THEN /\ ret' = Error(v.err, v.quoted)
                    /\ oscalls' = <<>>
               ELSE IF NodeAt(fs, v.path).kind # "dir"
               THEN /\ ret' = Error("listdir failed", v.path)
                    /\ oscalls' = <<Call("listdir", v.path)>>
               ELSE \E order \in Orders(Children(fs, Reach(fs, v.path).path)),
                       dir_size \in DirSizes :
                        Listing(v, order, dir_size)
    IN  /\ Idle
        /\ op' = [name |-> "list_directory_with_sizes", path |-> p, sortBy |-> sortBy]
        /\ fs0' = fs
        /\ UNCHANGED <<fs, cwd, conf, wr, obs, hist>>
        /\ Serve(validate_path(fs, cwd, p))

----------------------------------------------------------------------------
(* Start-up: load_mcp_config and the configuration block of the module;    *)
(* list_allowed_directories.                                               *)

\* What config/mcp_client_config.json holds: no file, text that is not
\* JSON, JSON that is not an object, or an object; whether the object has
\* mcpServers and that a filesystem-server entry; the keys of the entry and
\* the value of its allowedDir.
ConfigFile(file, mcpServers, server, keys, allowedDir) ==
    [file |-> file, mcpServers |-> mcpServers, server |-> server, keys |-> keys,
     allowedDir |-> allowedDir]

RequiredKeys == {"allowedDir", "serverName", "port"}

\* load_mcp_config() and lines 24-39: the exception that ends the import,
\* or the module's ALLOWED_DIR.
load_configuration ==
    LET Loaded(c) ==
            IF c.file = "missing" THEN Exited("FileNotFoundError: Config file not found")
            ELSE IF c.file = "not json" THEN Exited("JSONDecodeError")
            ELSE IF c.file = "not object" THEN Exited("ValueError: Invalid JSON format")
            ELSE IF ~c.mcpServers \/ ~c.server
                THEN Exited("ValueError: Invalid mcpServers configuration: missing filesystem-server")
            ELSE IF ~(RequiredKeys \subseteq c.keys)
                THEN Exited("ValueError: Missing allowedDir, serverName, or port")
            ELSE Serving(c.allowedDir)
    IN  /\ conf.state = "loading"
        /\ conf' = Loaded(conf.config)
        /\ UNCHANGED <<fs, cwd, op, ret, oscalls, vcalls, fs0, wr, obs, hist>>

AllowedWord == <<"A", "l", "l", "o", "w", "e", "d", " ", "d", "i", "r", "e", "c", "t", "o",
                 "r", "i", "e", "s", ":", NL>>

list_allowed_directories ==
    /\ Idle
    /\ op' = [name |-> "list_allowed_directories"]
    /\ ret' = Content(AllowedWord \o conf.ALLOWED_DIR)
    /\ oscalls' = <<>>
    /\ vcalls' = <<>>
    /\ fs0' = fs
    /\ UNCHANGED <<fs, cwd, conf, wr, obs, hist>>

----------------------------------------------------------------------------
(* read_file in its two steps, validate_path and open, with what another   *)
(* process may do to the filesystem between them.                          *)

\* valid_path as the path was spelled, its links not resolved.
read_valid_path_AsSpelled(fsys, wd, p) ==
    LET Checked(absolute_path) ==
            IF ~is_path_within_allowed_directory(wd, absolute_path, ALLOWED_DIR)
                THEN Raise("Access denied - path outside allowed directory", absolute_path)
            ELSE Ok(absolute_path)
    IN  Checked(normalize_path(wd, p))

\* valid_path = validate_path(parsed.path).
read_valid_path(fsys, wd, p) ==
    validate_path(fsys, wd, p)

\* The read with neither head nor tail, up to the return of validate_path.
read_file_validates(p) ==
    LET Checked(v) ==
            /\ vcalls' = <<VCall(p, v)>>
            /\ op' = [name |-> "read_file", path |-> p, head |-> None, tail |-> None,
                      pc |-> IF v.ok THEN "validated" ELSE "returned"]
            /\ ret' = IF v.ok THEN NoReturn ELSE Error(v.err, v.quoted)
    IN  /\ Idle
        /\ ret.kind = "none"
        /\ oscalls' = <<>>
        /\ fs0' = fs
        /\ UNCHANGED <<fs, cwd, conf, wr, obs, hist>>
        /\ Checked(read_valid_path(fs, cwd, p))

\* open(valid_path) and f.read(), on the filesystem as it is by now.  The
\* call is recorded with the place the kernel reached for the path.
read_file_opens ==
    LET Open(v, node) ==
            /\ oscalls' = <<CallOf("open", v.path, ToStr(Reach(fs, v.path).path))>>
            /\ ret' = IF node.kind # "file" THEN Error(ReadErrno(node), v.path)
                      ELSE Content(TextDecode(node.data))
    IN  /\ op.name = "read_file"
        /\ op.pc = "validated"
        /\ op' = [op EXCEPT !.pc = "returned"]
        /\ Open(vcalls[1].res, NodeAt(fs, vcalls[1].res.path))
        /\ UNCHANGED <<fs, cwd, conf, vcalls, fs0, wr, obs, hist>>

\* Another process puts a symbolic link in the place of a file or of a
\* directory of the root (rename(2) of a link over the file, or an
\* exchange of the two names).
EnvReplaceWithLink(phys, to) ==
    /\ ret.kind = "none"
    /\ Exists(fs, phys)
    /\ fs[phys].kind # "link"
    /\ fs' = Put([q \in {r \in DOMAIN fs : ~Under(r, phys)} |-> fs[q]], phys, Link(to))
    /\ UNCHANGED <<cwd, conf, op, ret, oscalls, vcalls, fs0, wr, obs, hist>>

----------------------------------------------------------------------------
(* directory_tree.  build_tree calls itself for every entry that is a      *)
(* directory; the calls under way are the frames of a stack, the first     *)
(* call at the bottom.                                                     *)

\* The frames the interpreter allows above the handler before it raises
\* RecursionError (sys.getrecursionlimit(), less the frames below the
\* handler).  Every build_tree call under way takes one.
RecursionLimit == 6

\* A call of build_tree under way: the directory it lists, the names
\* os.listdir gave that the loop has still to take, the name whose
\* build_tree call is awaited, and the entries appended so far.
Frame(valid_path, todo) ==
    [path |-> valid_path, todo |-> todo, awaited |-> <<>>, entries |-> <<>>]

\* entry_data.
FileEntry(name) == [name |-> name, type |-> "file"]
DirectoryEntry(name, children) ==
    [name |-> name, type |-> "directory", children |-> children]

\* The lists nested in tree_data, the outermost counted.
RECURSIVE Nesting(_)
Nesting(entries) ==
    LET Deeper(rest) == IF rest > 1 THEN rest ELSE 1
        In(entry, rest) ==
            IF entry.type # "directory" THEN Deeper(rest)
            ELSE IF 1 + Nesting(entry.children) > rest THEN 1 + Nesting(entry.children)
            ELSE Deeper(rest)
    IN  IF entries = <<>> THEN 1
        ELSE In(Head(entries), Nesting(Tail(entries)))

\* json.dumps({"content": json.dumps(tree_data, indent=2)}): with indent
\* the encoder is the recursive one, a frame for every list and a frame
\* for every dict inside it.  The payload holds tree_data itself.
TreePayload(tree_data) ==
    IF 2 * Nesting(tree_data) > RecursionLimit
    THEN Error("maximum recursion depth exceeded", <<>>)
    ELSE Content(tree_data)

\* The handler up to the first os.listdir: the arguments parsed, the path
\* validated, the outermost build_tree entered.
directory_tree(p) ==
    LET Enter(v) ==
            IF ~v.ok
            THEN /\ ret' = Error(v.err, v.quoted)
                 /\ op' = [name |-> "directory_tree", path |-> p, stack |-> <<>>]
                 /\ oscalls' = <<>>
            ELSE IF NodeAt(fs, v.path).kind # "dir"
            THEN /\ ret' = Error("listdir failed", v.path)
                 /\ op' = [name |-> "directory_tree", path |-> p, stack |-> <<>>]
                 /\ oscalls' = <<Call("listdir", v.path)>>
            ELSE /\ ret' = NoReturn
                 /\ op' = [name |-> "directory_tree", path |-> p,
                           stack |-> <<Frame(v.path, Children(fs, Reach(fs, v.path).path))>>]
                 /\ oscalls' = <<Call("listdir", v.path)>>
    IN  /\ Idle
        /\ fs0' = fs
        /\ vcalls' = <<VCall(p, validate_path(fs, cwd, p))>>
        /\ UNCHANGED <<fs, cwd, conf, wr, obs, hist>>
        /\ Enter(validate_path(fs, cwd, p))

\* One turn of the loop of the innermost build_tree: the next name of the
\* listing becomes an entry, or a build_tree call for it begins; with no
\* name left the call returns its entries to the call that awaits it, the
\* outermost one to the handler, which returns the tree.
build_tree ==
    LET Top == op.stack[Len(op.stack)]
        Below == SubSeq(op.stack, 1, Len(op.stack) - 1)
        Goes(stack) == /\ op' = [op EXCEPT !.stack = stack]
                       /\ ret' = NoReturn
        Raises(err) == /\ op' = op
                       /\ ret' = err
        Returns ==
            IF Len(op.stack) = 1
            THEN /\ op' = [op EXCEPT !.stack = <<>>]
                 /\ ret' = TreePayload(Top.entries)
                 /\ UNCHANGED <<vcalls, oscalls>>
            ELSE /\ Goes(SubSeq(Below, 1, Len(Below) - 1)
                         \o <<[Below[Len(Below)] EXCEPT
                                 !.awaited = <<>>,
                                 !.entries = Append(@, DirectoryEntry(Below[Len(Below)].awaited,
                                                                      Top.entries))]>>)
                 /\ UNCHANGED <<vcalls, oscalls>>
        Descends(entry, entry_path, v) ==
            /\ oscalls' = Append(oscalls, Call("isdir", entry_path))
            /\ IF Len(op.stack) >= RecursionLimit
               THEN /\ Raises(Error("maximum recursion depth exceeded", <<>>))
                    /\ vcalls' = vcalls
               ELSE /\ vcalls' = Append(vcalls, VCall(entry_path, v))
                    /\ IF ~v.ok THEN Raises(Error(v.err, v.quoted))
                       ELSE IF NodeAt(fs, v.path).kind # "dir"
                       THEN Raises(Error("listdir failed", v.path))
                       ELSE Goes(Below
                                 \o <<[Top EXCEPT !.todo = @ \ {entry}, !.awaited = entry]>>
                                 \o <<Frame(v.path, Children(fs, Reach(fs, v.path).path))>>)
        Takes(entry, entry_path) ==
            IF isdir(fs, entry_path)
            THEN Descends(entry, entry_path, validate_path(fs, cwd, entry_path))
            ELSE /\ Goes(Below \o <<[Top EXCEPT !.todo = @ \ {entry},
                                                !.entries = Append(@, FileEntry(entry))]>>)
                 /\ oscalls' = Append(oscalls, Call("isdir", entry_path))
                 /\ vcalls' = vcalls
    IN  /\ op.name = "directory_tree"
        /\ ret.kind = "none"
        /\ op.stack # <<>>
        /\ IF Top.todo = {} THEN Returns
           ELSE \E entry \in Top.todo : Takes(entry, PathJoin(Top.path, entry))
        /\ UNCHANGED <<fs, cwd, conf, fs0, wr, obs, hist>>

----------------------------------------------------------------------------
(* Several calls at once.  Nothing in the server orders one call after     *)
(* another: every write_file and every edit_file takes its steps (the      *)
(* read, the opening of the temporary file, the writes, the rename) with   *)
(* the steps of the other calls in between.  In this part op, ret and wr   *)
(* hold one value for every call.                                          *)

\* data with piece written at offset off, the gap, if any, filled with NUL.
Overlay(data, off, piece) ==
    LET Size(a, b) == IF a > b THEN a ELSE b
    IN  [i \in 1..Size(Len(data), off + Len(piece)) |->
            IF i > off /\ i <= off + Len(piece) THEN piece[i - off]
            ELSE IF i <= Len(data) THEN data[i] ELSE NUL]

\* The file read where it is when the call began, whatever happened since.
ReadForEdit_Stale(fsys, valid_path) == NodeAt(fs0, valid_path)

\* open(file_path, "r") and f.read() at the head of apply_file_edits.
ReadForEdit(fsys, valid_path) == NodeAt(fsys, valid_path)

\* secrets.token_hex(16) draws 128 random bits: the token of a call is one
\* that no call under way holds.
FreshTokens(pool) ==
    {t \in pool : \A d \in DOMAIN wr : wr[d].pc = "idle" \/ wr[d].token # t}

\* What the history keeps of the calls: the order of the renames, what the
\* file held when each call began, and whether a call began while another
\* was under way.
Began(c, held) ==
    [hist EXCEPT !.held[c] = held,
                 !.overlapped = @ \/ \E d \in DOMAIN wr : wr[d].pc = "writing"]

\* write_file of one call up to the opening of its temporary file.
call_write_file(c, p, content, token) ==
    LET Opened(v, temp, t, cleanup) ==
            /\ wr' = [wr EXCEPT ![c] =
                        Writing("write", v.path, temp, t.path, content, cleanup,
                                Message("Successfully wrote to", p),
                                Snapshot(fs, v.path)) @@ [token |-> token]]
            /\ fs' = Put(fs, t.path, File(<<>>))
            /\ ret' = ret
        Open(v, temp, t) ==
            \* open(temp_path, "x"); except FileExistsError: open(temp_path, "w")
            IF ~t.ok \/ ~ParentIsDir(fs, t.path) \/ IsKind(fs, t.path, "dir")
            THEN /\ ret' = [ret EXCEPT ![c] = Error("open failed", temp)]
                 /\ wr' = [wr EXCEPT ![c] = Ended("failed", "write", v.path,
                                                   Snapshot(fs, v.path))
                                             @@ [token |-> token]]
                 /\ fs' = fs
            ELSE Opened(v, temp, t, ~Exists(fs, t.path))
        Serve(v) ==
            IF ~v.ok
            THEN /\ ret' = [ret EXCEPT ![c] = Error(v.err, v.quoted)]
                 /\ wr' = [wr EXCEPT ![c] = Ended("failed", "write", <<>>,
                                                   Snapshot(fs, p))
                                             @@ [token |-> token]]
                 /\ fs' = fs
            ELSE Open(v, temp_path(v.path, token),
                      ReachNoFollow(fs, temp_path(v.path, token)))
    IN  /\ wr[c].pc = "idle"
        /\ op' = [op EXCEPT ![c] = [name |-> "write_file", path |-> p,
                                    content |-> content]]
        /\ hist' = Began(c, Snapshot(fs, p))
        /\ UNCHANGED <<cwd, conf, oscalls, vcalls, fs0, obs>>
        /\ Serve(validate_path(fs, cwd, p))

\* edit_file of one call, dryRun false, up to the opening of its temporary
\* file: the file read, the edits applied to what was read, the diff made.
call_edit_file(c, p, edits, token) ==
    LET Open(v, node, temp, t, r) ==
            \* open(temp_path, "w")
            IF ~t.ok \/ ~ParentIsDir(fs, t.path) \/ IsKind(fs, t.path, "dir")
            THEN /\ ret' = [ret EXCEPT ![c] = Error("open failed", temp)]
                 /\ wr' = [wr EXCEPT ![c] = Ended("failed", "edit", v.path,
                                                   [kind |-> node.kind, data |-> node.data])
                                             @@ [token |-> token]]
                 /\ fs' = fs
            ELSE /\ ret' = ret
                 /\ wr' = [wr EXCEPT ![c] =
                             Writing("edit", v.path, temp, t.path, r.text, TRUE,
                                     Content(FormatDiff(create_unified_diff(
                                         normalize_line_endings(TextDecode(node.data)),
                                         r.text, v.path))),
                                     [kind |-> node.kind, data |-> node.data])
                             @@ [token |-> token]]
                 /\ fs' = Put(fs, t.path, File(<<>>))
        Edited(v, node, r) ==
            IF ~r.ok
            THEN /\ ret' = [ret EXCEPT ![c] = Error(r.msg, r.text)]
                 /\ wr' = [wr EXCEPT ![c] = Ended("failed", "edit", v.path,
                                                   [kind |-> node.kind, data |-> node.data])
                                             @@ [token |-> token]]
                 /\ fs' = fs
            ELSE Open(v, node, temp_path(v.path, token),
                      Reach(fs, temp_path(v.path, token)), r)
        Read(v, node) ==
            IF node.kind # "file"
            THEN /\ ret' = [ret EXCEPT ![c] = Error(ReadErrno(node), v.path)]
                 /\ wr' = [wr EXCEPT ![c] = Ended("failed", "edit", v.path,
                                                   [kind |-> node.kind, data |-> node.data])
                                             @@ [token |-> token]]
                 /\ fs' = fs
            ELSE Edited(v, node,
                        EditLoop(normalize_line_endings(TextDecode(node.data)), edits))
        Serve(v) ==
            IF ~v.ok
            THEN /\ ret' = [ret EXCEPT ![c] = Error(v.err, v.quoted)]
                 /\ wr' = [wr EXCEPT ![c] = Ended("failed", "edit", <<>>,
                                                   Snapshot(fs, p))
                                             @@ [token |-> token]]
                 /\ fs' = fs
            ELSE Read(v, ReadForEdit(fs, v.path))
    IN  /\ wr[c].pc = "idle"
        /\ op' = [op EXCEPT ![c] = [name |-> "edit_file", path |-> p, edits |-> edits,
                                    dryRun |-> FALSE]]
        /\ hist' = Began(c, Snapshot(fs, p))
        /\ UNCHANGED <<cwd, conf, oscalls, vcalls, fs0, obs>>
        /\ Serve(validate_path(fs, cwd, p))

\* f.write / close of one call: some more of its bytes reach the file it
\* holds open, at the offset it has come to.
call_writes(c) ==
    /\ wr[c].pc = "writing"
    /\ wr[c].sent < Len(wr[c].bytes)
    /\ \E k \in (wr[c].sent + 1)..Len(wr[c].bytes) :
          /\ wr' = [wr EXCEPT ![c].sent = k]
          /\ fs' = IF Exists(fs, wr[c].fd) /\ IsKind(fs, wr[c].fd, "file")
                   THEN Put(fs, wr[c].fd,
                            File(Overlay(fs[wr[c].fd].data, wr[c].sent,
                                         SubSeq(wr[c].bytes, wr[c].sent + 1, k))))
                   ELSE fs
    /\ UNCHANGED <<cwd, conf, op, ret, oscalls, vcalls, fs0, obs, hist>>

\* os.rename(temp_path, valid_path) of one call and its return; when the
\* rename fails, the cleanup of the branch the call is in.
call_renames(c) ==
    LET Failed(msg) ==
            /\ ret' = [ret EXCEPT ![c] = Error(msg, wr[c].temp)]
            /\ wr' = [wr EXCEPT ![c].pc = "failed"]
            /\ fs' = IF wr[c].cleanup THEN Unlinked(fs, wr[c].temp) ELSE fs
            /\ hist' = hist
        Move(src, dst) ==
            IF ~src.ok \/ ~Exists(fs, src.path)
            THEN Failed("[Errno 2] No such file or directory")
            ELSE IF IsKind(fs, dst.path, "dir") THEN Failed("[Errno 21] Is a directory")
            ELSE /\ ret' = [ret EXCEPT ![c] = wr[c].result]
                 /\ wr' = [wr EXCEPT ![c].pc = "done"]
                 /\ fs' = IF src.path = dst.path THEN fs
                          ELSE Put(Remove(fs, src.path), dst.path, fs[src.path])
                 /\ hist' = [hist EXCEPT !.order = Append(@, c)]
    IN  /\ wr[c].pc = "writing"
        /\ wr[c].sent = Len(wr[c].bytes)
        /\ Move(ReachNoFollow(fs, wr[c].temp), ReachNoFollow(fs, wr[c].path))
        /\ UNCHANGED <<cwd, conf, op, oscalls, vcalls, fs0, obs>>

----------------------------------------------------------------------------
(* The response is sent; the call's transient values are discarded.        *)

Respond ==
    /\ ret.kind # "none"
    /\ op' = [name |-> "none"]
    /\ ret' = NoReturn
    /\ oscalls' = <<>>
    /\ vcalls' = <<>>
    /\ fs0' = fs
    /\ wr' = NoWrite
    /\ obs' = NoObs
    /\ UNCHANGED <<fs, cwd, conf, hist>>

----------------------------------------------------------------------------
(* Other processes.                                                        *)

\* Another process makes /s/l a symbolic link to a target, or removes it.
EnvSymlink(to) ==
    /\ ret.kind = "none"
    /\ IF Exists(fs, <<nS, nL>>) THEN fs[<<nS, nL>>].kind = "link" ELSE TRUE
    /\ (IF IsKind(fs, <<nS, nL>>, "link") THEN fs[<<nS, nL>>].target ELSE <<>>) # to
    /\ fs' = Put(fs, <<nS, nL>>, Link(to))
    /\ UNCHANGED <<cwd, conf, op, ret, oscalls, vcalls, fs0, wr, obs, hist>>

EnvUnlink ==
    /\ ret.kind = "none"
    /\ IsKind(fs, <<nS, nL>>, "link")
    /\ fs' = Remove(fs, <<nS, nL>>)
    /\ UNCHANGED <<cwd, conf, op, ret, oscalls, vcalls, fs0, wr, obs, hist>>

----------------------------------------------------------------------------
(* The requests the model makes.                                           *)

\* Path arguments: plain, relative, quoted and padded, with "." and "..",
\* through links, outside the root, with a home marker, with two leading
\* slashes, with a NUL.
ReqPaths ==
    { PathOf(<<nS>>), PathOf(<<nS, nA>>), PathOf(<<nS, nD>>), PathOf(<<nS, nD, nF>>),
      PathOf(<<nS, nL>>), PathOf(<<nS, nL, nP>>), PathOf(<<nS, nL, nF>>),
      PathOf(<<nS, nN>>), PathOf(<<nS, DotDot, nE, nP>>),
      PathOf(<<nSX>>), PathOf(<<nSX, nG>>), PathOf(<<nE>>), PathOf(<<nE, nP>>),
      PathOf(<<nE, nI>>), <<SEP>>,
      nA, nD \o <<SEP>> \o Dot \o <<SEP>> \o nF, DotDot \o <<SEP>> \o nE,
      <<" ", "'">> \o PathOf(<<nS, nA>>) \o <<"'", " ">>,
      <<Tilde>> \o PathOf(<<nS, nA>>), <<Tilde>>,
      <<SEP>> \o PathOf(<<nS, nA>>),
      PathOf(<<nS, <<NUL>>>>) }

\* head and tail of a read: neither, one of them, both; zero among them.
ReadCounts == {<<None, None>>, <<1, None>>, <<None, 1>>, <<None, 2>>, <<1, 1>>,
               <<0, None>>, <<0, 1>>, <<1, 0>>, <<0, 0>>}

\* Where the server may have been started.
CwdChoices == {PathOf(<<nS>>), PathOf(<<nE>>)}

Init ==
    /\ fs = BaseTree(<<"a", NL>>)
    /\ cwd \in CwdChoices
    /\ op = [name |-> "none"]
    /\ ret = NoReturn
    /\ oscalls = <<>>
    /\ vcalls = <<>>
    /\ fs0 = fs
    /\ wr = NoWrite
    /\ obs = NoObs
    /\ hist = NoHist
    /\ conf = Serving(ALLOWED_DIR)

\* The hex digits a call draws for its temporary file.
Tokens == {<<"0", "f">>}

Next ==
    \/ \E p \in ReqPaths : list_directory(p)
    \/ \E p \in ReqPaths, n \in ReadCounts : read_file(p, n[1], n[2])
    \/ Respond
    \/ \E to \in LinkTargets : EnvSymlink(to)
    \/ EnvUnlink

Spec == Init /\ [][Next]_vars

----------------------------------------------------------------------------
(* Moves and new directories, with a link /s/l that leads out of the root. *)

\* Sources and destinations of moves.  No destination is deeper than the
\* root's own entries unless it goes through the link, so the tree stays
\* as shallow as it starts.
MoveSources ==
    { PathOf(<<nS, nA>>), PathOf(<<nS, nD>>), PathOf(<<nS, nD, nF>>),
      PathOf(<<nS, nN>>), PathOf(<<nS, nL>>), PathOf(<<nS, nL, nP>>),
      PathOf(<<nE, nP>>), PathOf(<<nSX, nG>>), PathOf(<<nS, DotDot, nE, nP>>) }

MoveDestinations ==
    { PathOf(<<nS, nA>>), PathOf(<<nS, nD>>), PathOf(<<nS, nN>>),
      PathOf(<<nS, nL>>), PathOf(<<nS, nL, nP>>), PathOf(<<nS, nL, nN>>),
      PathOf(<<nE, nP>>), PathOf(<<nSX, nG>>), nN, PathOf(<<nS, DotDot, nE, nN>>) }

MkdirPaths ==
    { PathOf(<<nS, nN>>), PathOf(<<nS, nN, nD>>), PathOf(<<nS, nA>>),
      PathOf(<<nS, nA, nN>>), PathOf(<<nS, nL, nN>>), PathOf(<<nE, nN>>) }

InitMove ==
    /\ fs = Put(BaseTree(<<"a", NL>>), <<nS, nL>>, Link(PathOf(<<nE>>)))
    /\ cwd = PathOf(<<nS>>)
    /\ op = [name |-> "none"]
    /\ ret = NoReturn
    /\ oscalls = <<>>
    /\ vcalls = <<>>
    /\ fs0 = fs
    /\ wr = NoWrite
    /\ obs = NoObs
    /\ hist = NoHist
    /\ conf = Serving(ALLOWED_DIR)

NextMove ==
    \/ \E s \in MoveSources, d \in MoveDestinations : move_file(s, d)
    \/ \E p \in MkdirPaths : create_directory(p)
    \/ Respond

SpecMove == InitMove /\ [][NextMove]_vars

----------------------------------------------------------------------------
(* Searches, reads of several files and sized listings of a tree that does *)
(* not change but for the link /s/l.                                       *)

SearchPaths == {PathOf(<<nS>>), PathOf(<<nS, nD>>), PathOf(<<nS, nL>>), PathOf(<<nE>>)}
SearchPatterns == {<<"a">>, <<"F">>, <<"z">>, <<>>}
SearchExcludes == {{}, {<<"d", SEP, "*">>}, {<<"*">>}}

\* The paths of a read of several files: files, a missing name, a
\* directory, a path outside the root and one through the link.
MultiPaths ==
    { PathOf(<<nS, nA>>), PathOf(<<nS, nD, nF>>), PathOf(<<nS, nN>>), PathOf(<<nS, nD>>),
      PathOf(<<nE, nP>>), PathOf(<<nS, nL, nP>>) }
MaxPaths == 2
PathLists == UNION {[1..k -> MultiPaths] : k \in 0..MaxPaths}

\* Directories listed with sizes, and the orders asked for.
SizedPaths == {PathOf(<<nS>>), PathOf(<<nS, nD>>), PathOf(<<nS, nA>>), PathOf(<<nE>>)}
SortBys == {"name", "size", "mtime"}

\* A file of more than 512 bytes, which format_size gives in KB.
nB == <<"b">>
BigFile == File(Repeat(<<"x">>, 640))

InitList ==
    /\ fs = Put(BaseTree(<<"a", NL>>), <<nS, nB>>, BigFile)
    /\ cwd = PathOf(<<nS>>)
    /\ op = [name |-> "none"]
    /\ ret = NoReturn
    /\ oscalls = <<>>
    /\ vcalls = <<>>
    /\ fs0 = fs
    /\ wr = NoWrite
    /\ obs = NoObs
    /\ hist = NoHist
    /\ conf = Serving(ALLOWED_DIR)

NextList ==
    \/ \E p \in SearchPaths, pattern \in SearchPatterns, ex \in SearchExcludes :
           search_files(p, pattern, ex)
    \/ \E paths \in PathLists : read_multiple_files(paths)
    \/ \E p \in SizedPaths, sortBy \in SortBys : list_directory_with_sizes(p, sortBy)
    \/ Respond
    \/ \E to \in LinkTargets : EnvSymlink(to)
    \/ EnvUnlink

SpecList == InitList /\ [][NextList]_vars

----------------------------------------------------------------------------
(* The server from its start, with configuration files of every kind.      *)

AllowedDirValues ==
    { <<>>, nS, Dot \o <<SEP>> \o nS, PathOf(<<nS>>), PathOf(<<nS, nD>>), PathOf(<<nE>>),
      <<SEP>>, <<Tilde>> }

ConfigFiles ==
    { ConfigFile("missing", FALSE, FALSE, {}, <<>>),
      ConfigFile("not json", FALSE, FALSE, {}, <<>>),
      ConfigFile("not object", FALSE, FALSE, {}, <<>>),
      ConfigFile("object", FALSE, FALSE, {}, <<>>),
      ConfigFile("object", TRUE, FALSE, {}, <<>>) }
    \cup { ConfigFile("object", TRUE, TRUE, keys, <<>>) :
             keys \in {k \in SUBSET RequiredKeys : "allowedDir" \notin k} }
    \cup { ConfigFile("object", TRUE, TRUE, keys, allowedDir) :
             keys \in {k \in SUBSET RequiredKeys : "allowedDir" \in k},
             allowedDir \in AllowedDirValues }

InitStart ==
    /\ fs = BaseTree(<<"a", NL>>)
    /\ cwd \in CwdChoices
    /\ op = [name |-> "none"]
    /\ ret = NoReturn
    /\ oscalls = <<>>
    /\ vcalls = <<>>
    /\ fs0 = fs
    /\ wr = NoWrite
    /\ obs = NoObs
    /\ hist = NoHist
    /\ conf \in {Loading(c) : c \in ConfigFiles}

NextStart ==
    \/ load_configuration
    \/ list_allowed_directories
    \/ Respond

SpecStart == InitStart /\ [][NextStart]_vars

----------------------------------------------------------------------------
(* Reads that other processes interleave with.                             *)

RacePaths ==
    { PathOf(<<nS, nA>>), PathOf(<<nS, nD, nF>>), PathOf(<<nS, nD>>), PathOf(<<nS, nN>>),
      PathOf(<<nS, nL>>), PathOf(<<nS, nL, nP>>), PathOf(<<nS, nL, nF>>),
      PathOf(<<nE, nP>>), nA }

\* The names another process replaces, and what it makes them point to.
Replaced == {<<nS, nA>>, <<nS, nD>>}
ReplaceTargets == {PathOf(<<nE, nP>>), PathOf(<<nE>>)}

InitRace ==
    /\ fs = BaseTree(<<"a", NL>>)
    /\ cwd = PathOf(<<nS>>)
    /\ op = [name |-> "none"]
    /\ ret = NoReturn
    /\ oscalls = <<>>
    /\ vcalls = <<>>
    /\ fs0 = fs
    /\ wr = NoWrite
    /\ obs = NoObs
    /\ hist = NoHist
    /\ conf = Serving(ALLOWED_DIR)

NextRace ==
    \/ \E p \in RacePaths : read_file_validates(p)
    \/ read_file_opens
    \/ Respond
    \/ \E phys \in Replaced, to \in ReplaceTargets : EnvReplaceWithLink(phys, to)
    \/ \E to \in LinkTargets : EnvSymlink(to)
    \/ EnvUnlink

SpecRace == InitRace /\ [][NextRace]_vars

----------------------------------------------------------------------------
(* Writes, edits and reads of a few files with many contents: line ends of *)
(* every kind, indented lines, edit lists that match, that fail at the     *)
(* first edit and that fail after one has matched.                         *)

HelloWorld == <<"h", "e", "l", "l", "o", NL, "w", "o", "r", "l", "d", NL>>
World == <<"w", "o", "r", "l", "d">>
There == <<"t", "h", "e", "r", "e">>

FileContents == {HelloWorld, <<"a", CR, NL, " ", "b", CR, NL>>}

WriteContents == {<<>>, <<"a", NL, "b", NL>>, <<"a", CR, NL, "b">>, <<"a", CR, "b">>}

EditLists ==
    { <<Edit(World, There)>>,
      <<Edit(<<"b">>, <<"x", NL, " ", "y">>)>>,
      <<Edit(<<"a">>, <<"c">>), Edit(<<"z">>, <<"y">>)>>,
      <<Edit(<<"z">>, <<"y">>)>> }

FilePaths == {PathOf(<<nS, nA>>), PathOf(<<nS, nN>>), PathOf(<<nS, nD>>)}

\* A temporary file of /s/a that an earlier run left behind, under the name
\* the next call draws.
StaleTemp == <<nS, nA \o <<".">> \o (CHOOSE t \in Tokens : TRUE) \o TMP>>

InitFiles ==
    /\ fs \in {BaseTree(d) : d \in FileContents}
              \cup {Put(BaseTree(HelloWorld), StaleTemp, File(<<"o", "l", "d">>))}
    /\ cwd = PathOf(<<nS>>)
    /\ op = [name |-> "none"]
    /\ ret = NoReturn
    /\ oscalls = <<>>
    /\ vcalls = <<>>
    /\ fs0 = fs
    /\ wr = NoWrite
    /\ obs = NoObs
    /\ hist = NoHist
    /\ conf = Serving(ALLOWED_DIR)

NextFiles ==
    \/ \E p \in FilePaths, c \in WriteContents, t \in Tokens : write_file(p, c, t)
    \/ \E p \in FilePaths, e \in EditLists, d \in BOOLEAN, t \in Tokens :
          edit_file(p, e, d, t)
    \/ \E p \in FilePaths : read_file(p, None, None)
    \/ WriteData
    \/ Rename
    \/ WriteFails
    \/ ReaderOpens
    \/ Respond

SpecFiles == InitFiles /\ [][NextFiles]_vars

----------------------------------------------------------------------------
(* The edits of one file call after call.  The file holds repeated and     *)
(* indented lines, a blank line, or a long run of backticks; the edit      *)
(* lists match once or several times, build on one another, change the     *)
(* number of lines, bring runs of backticks, or have a text of no lines    *)
(* or with a blank first line.                                             *)

Ticks(n) == Repeat(FENCE_UNIT, n)

EditContents ==
    { <<" ", " ", "a", NL, "b", NL, " ", "a", NL>>,
      <<"a", NL, NL, "b", NL>>,
      Ticks(3) \o <<NL, "a", NL>> }

EditCases ==
    { <<Edit(<<"a">>, <<"c">>)>>,
      <<Edit(<<"a">>, <<"b">>), Edit(<<"b">>, <<"z">>)>>,
      <<Edit(<<"b", NL, "a">>, <<"\t", "q", NL, " ", "r", NL, "s">>)>>,
      <<Edit(<<" ", "a", NL, "b">>, <<" ", "x">>)>>,
      <<Edit(<<"a">>, <<" ", "x", NL, " ", "y">>)>>,
      <<Edit(<<"a">>, Ticks(4))>>,
      <<Edit(<<>>, <<"c">>)>>,
      <<Edit(<<" ">>, <<"c">>)>>,
      <<Edit(<<NL, "b">>, <<"c">>)>>,
      <<Edit(<<"a">>, <<>>)>>,
      <<Edit(<<"a">>, <<"c">>), Edit(<<"b">>, <<>>)>> }

EditedFile == PathOf(<<nS, nA>>)

InitEdits ==
    /\ fs \in {BaseTree(d) : d \in EditContents}
    /\ cwd = PathOf(<<nS>>)
    /\ op = [name |-> "none"]
    /\ ret = NoReturn
    /\ oscalls = <<>>
    /\ vcalls = <<>>
    /\ fs0 = fs
    /\ wr = NoWrite
    /\ obs = NoObs
    /\ hist = NoHist
    /\ conf = Serving(ALLOWED_DIR)

NextEdits ==
    \/ \E e \in EditCases, d \in BOOLEAN, t \in Tokens : edit_file(EditedFile, e, d, t)
    \/ WriteData
    \/ Rename
    \/ Respond

SpecEdits == InitEdits /\ [][NextEdits]_vars

----------------------------------------------------------------------------
(* directory_tree on trees of four levels: without links, with a link to   *)
(* an ancestor of the directory that holds it, with links to another       *)
(* directory, to a file and out of the root.                               *)

nK == <<"k">>
nJ == <<"j">>
nU == <<"u">>

DeepTree ==
    Put(Put(Put(BaseTree(<<"a", NL>>), <<nS, nD, nK>>, Dir),
            <<nS, nD, nK, nG>>, File(<<"g">>)),
        <<nS, nD, nK, nJ>>, Dir)

TreeShapes ==
    { DeepTree,
      Put(DeepTree, <<nS, nD, nU>>, Link(PathOf(<<nS>>))),
      Put(DeepTree, <<nS, nD, nK, nU>>, Link(PathOf(<<nS, nD>>))),
      Put(DeepTree, <<nS, nD, nK, nU>>, Link(PathOf(<<nS, nD, nK, nJ>>))),
      Put(DeepTree, <<nS, nD, nK, nU>>, Link(PathOf(<<nS, nA>>))),
      Put(DeepTree, <<nS, nD, nK, nU>>, Link(PathOf(<<nE>>))) }

TreePaths ==
    {PathOf(<<nS>>), PathOf(<<nS, nD>>), PathOf(<<nS, nD, nK>>), PathOf(<<nS, nA>>),
     PathOf(<<nS, nN>>), PathOf(<<nE>>)}

InitTree ==
    /\ fs \in TreeShapes
    /\ cwd = PathOf(<<nS>>)
    /\ op = [name |-> "none"]
    /\ ret = NoReturn
    /\ oscalls = <<>>
    /\ vcalls = <<>>
    /\ fs0 = fs
    /\ wr = NoWrite
    /\ obs = NoObs
    /\ hist = NoHist
    /\ conf = Serving(ALLOWED_DIR)

NextTree ==
    \/ \E p \in TreePaths : directory_tree(p)
    \/ build_tree
    \/ Respond

SpecTree == InitTree /\ [][NextTree]_vars

----------------------------------------------------------------------------
(* Calls at once on one file of two lines: writes of two contents and      *)
(* edits that replace the first line or the second.                        *)

MaxCalls == 2

Callers == 1..MaxCalls

TokenPool == {<<"0", "a">>, <<"0", "b">>, <<"0", "c">>}

SharedFile == PathOf(<<nS, nA>>)
TwoLines == <<"x", NL, "y", NL>>
EditX == <<Edit(<<"x">>, <<"p">>)>>
EditY == <<Edit(<<"y">>, <<"q">>)>>
SharedWrites == {<<"1", "1">>, <<"2", "2">>}

InitCalls ==
    /\ fs = BaseTree(TwoLines)
    /\ cwd = PathOf(<<nS>>)
    /\ op = [c \in Callers |-> [name |-> "none"]]
    /\ ret = [c \in Callers |-> NoReturn]
    /\ oscalls = <<>>
    /\ vcalls = <<>>
    /\ fs0 = fs
    /\ wr = [c \in Callers |-> NoWrite]
    /\ obs = NoObs
    /\ hist = [order |-> <<>>, held |-> [c \in Callers |-> Snapshot(fs, SharedFile)],
               overlapped |-> FALSE]
    /\ conf = Serving(ALLOWED_DIR)

NextCalls ==
    \/ \E c \in Callers, w \in SharedWrites, t \in FreshTokens(TokenPool) :
          call_write_file(c, SharedFile, w, t)
    \/ \E c \in Callers, e \in {EditX, EditY}, t \in FreshTokens(TokenPool) :
          call_edit_file(c, SharedFile, e, t)
    \/ \E c \in Callers : call_writes(c)
    \/ \E c \in Callers : call_renames(c)

SpecCalls == InitCalls /\ [][NextCalls]_vars

----------------------------------------------------------------------------
(* Properties.                                                             *)

\* The allowed root as the containment test sees it, and "P is R or starts
\* with R + separator".
RootPath == normpath(ALLOWED_DIR)
InsideRoot(p) == p = RootPath \/ StartsWith(p, RootPath \o <<SEP>>)

HasNul(p) == \E i \in 1..Len(p) : p[i] = NUL

EscapeTarget ==
    IF op.name # "list_directory" THEN <<>>
    ELSE LET n == normalize_path(cwd, op.path)
             t == Reach(fs0, n)
         IN  IF /\ InsideRoot(n)
                /\ IsKind(fs0, ToComps(n), "link")
                /\ t.ok
                /\ IsKind(fs0, t.path, "dir")
                /\ ~InsideRoot(ToStr(t.path))
             THEN t.path ELSE <<>>

----------------------------------------------------------------------------
(* Reads of the tail of files around the size of one block: a head of a    *)
(* few characters, then nothing or one block whose first and last          *)
(* characters vary, so that a terminator, an empty line, the two halves of *)
(* "\r\n" or the middle of a line fall on the block boundary.              *)

MaxHeadLen == 2

TailHeads == UNION {[1..k -> {"a", NL, CR}] : k \in 0..MaxHeadLen}

\* One block that starts with first and ends with last.
Block(first, last) ==
    first \o Repeat(<<"x">>, chunk_size - Len(first) - Len(last)) \o last

TailBlocks ==
    {<<>>} \cup {Block(first, last) : first \in {<<>>, <<NL>>, <<"b", NL>>},
                                     last \in {<<>>, <<NL>>}}

TailContents == {h \o b : h \in TailHeads, b \in TailBlocks}

TailCounts == {1, 2, 3, 5}

InitTail ==
    /\ fs \in {BaseTree(c) : c \in TailContents}
    /\ cwd = PathOf(<<nS>>)
    /\ op = [name |-> "none"]
    /\ ret = NoReturn
    /\ oscalls = <<>>
    /\ vcalls = <<>>
    /\ fs0 = fs
    /\ wr = NoWrite
    /\ obs = NoObs
    /\ hist = NoHist
    /\ conf = Serving(ALLOWED_DIR)

NextTail ==
    \/ \E n \in TailCounts : read_file(PathOf(<<nS, nA>>), None, n)
    \/ Respond

SpecTail == InitTail /\ [][NextTail]_vars

----------------------------------------------------------------------------
\* C2 as stated: every path a call hands to the operating system was
\* returned by a successful validate_path in that call; this covers the
\* entry paths a listing tests with isdir.
C2_OnlyValidatedPathsReachOS ==
    \A i \in DOMAIN oscalls :
        \E j \in DOMAIN vcalls :
            vcalls[j].res.ok /\ vcalls[j].res.path = oscalls[i].path

----------------------------------------------------------------------------
(* Writes and edits (SpecFiles).                                           *)

\* The complete new content of the write under way, as a reader gets it.
NewContent == [kind |-> "file", data |-> wr.bytes]

\* C5: while a write or a non-dry-run edit is under way, a reader that opens
\* the target gets the complete prior content until the rename and the
\* complete new content after it; a target that is still being written, or
\* whose write failed, holds the prior content.
C5_ReaderSeesOldOrNew ==
    /\ obs.seen = "writing" => obs.got = wr.prior
    /\ obs.seen = "failed" => obs.got = wr.prior
    /\ obs.seen = "done" => obs.got = NewContent
    /\ wr.pc \in {"writing", "failed"} => Snapshot(fs, wr.path) = wr.prior
    /\ wr.pc = "done" => Snapshot(fs, wr.path) = NewContent

\* C5's case: a reader opened an existing target while the temporary file
\* was partly written.
C5_Witness ==
    /\ obs.seen = "writing"
    /\ obs.sent > 0
    /\ obs.sent < Len(wr.bytes)
    /\ obs.got.kind = "file"
    /\ obs.got.data # <<>>

\* The names in the directory of path that are temporary files of path.
TempNames(fsys, path) ==
    LET In(t) == {name \in Children(fsys, DropLast(t.path)) :
                     /\ Len(name) > Len(t.path[Len(t.path)])
                     /\ StartsWith(name, t.path[Len(t.path)] \o <<".">>)
                     /\ EndsWith(name, TMP)}
    IN  In(ReachNoFollow(fsys, path))

\* C6 as stated: a read with neither head nor tail that follows a successful
\* write of content c to the same file returns exactly c, and after the
\* write no temporary file of the target is in its directory.
C6_ReadReturnsWhatWasWritten ==
    /\ (/\ op.name = "read_file"
        /\ hist.kind = "wrote"
        /\ Len(vcalls) = 1
        /\ vcalls[1].res.ok
        /\ vcalls[1].res.path = hist.path)
            => ret = Content(hist.content)
    /\ (wr.pc = "done" /\ wr.kind = "write") => TempNames(fs, wr.path) = {}

\* The index of the first edit of the list whose oldText has no matching
\* window in what the edits before it left, 0 when there is none.
RECURSIVE FirstMiss(_, _, _)
FirstMiss(content, edits, k) ==
    IF k > Len(edits) THEN 0
    ELSE IF FirstWindow(splitlines(content),
                        splitlines(normalize_line_endings(edits[k].oldText))) = 0
        THEN k
    ELSE LET Then(r) == IF ~r.ok THEN 0 ELSE FirstMiss(r.text, edits, k + 1)
         IN  Then(ApplyEdit(content, edits[k]))

\* The file an edit call works on, as it was when the call began.
EditTarget == NodeAt(fs0, vcalls[1].res.path)
EditReadsFile ==
    /\ op.name = "edit_file"
    /\ vcalls[1].res.ok
    /\ EditTarget.kind = "file"
EditMiss ==
    FirstMiss(normalize_line_endings(TextDecode(EditTarget.data)), op.edits, 1)

\* C7: a non-dry-run edit one of whose edits has no matching window returns
\* the error that names that edit, and the filesystem (the file, and any
\* temporary file) is what it was before the call.
C7_FailedEditChangesNothing ==
    (EditReadsFile /\ ~op.dryRun /\ EditMiss > 0) =>
        /\ ret = Error("Could not find exact match for edit", op.edits[EditMiss].oldText)
        /\ fs = fs0
        /\ wr.pc = "idle"

\* C7's case: the second edit of a list misses after the first has matched.
C7_Witness ==
    /\ EditReadsFile
    /\ ~op.dryRun
    /\ EditMiss = 2
    /\ ret.kind = "error"

\* The dry run in the history was made on the input of the current call.
SameInputAsDryRun ==
    /\ EditReadsFile
    /\ hist.kind = "dry"
    /\ hist.path = vcalls[1].res.path
    /\ hist.edits = op.edits
    /\ hist.before = EditTarget.data

\* C8: a dry run of an edit leaves the filesystem as it was and starts no
\* write, whether the edits match or not; a call without dryRun on the same
\* input that was not stopped by an I/O failure returns what the dry run
\* returned.
C8_DryRunChangesNothing ==
    /\ (op.name = "edit_file" /\ op.dryRun) => (fs = fs0 /\ wr.pc = "idle" /\ ret.kind # "none")
    /\ (SameInputAsDryRun /\ ~op.dryRun /\ wr.pc \in {"idle", "done"}) => ret = hist.out

\* C8's case: a dry run returned a diff and the same edit was then made.
C8_Witness ==
    /\ SameInputAsDryRun
    /\ ~op.dryRun
    /\ wr.pc = "done"
    /\ hist.out.kind = "content"
    /\ fs # fs0

\* The lines of a diff that start with c and are no header line.
DiffLines(text, c) ==
    LET Of(lines) == {k \in DOMAIN lines :
                         /\ StartsWith(lines[k], <<c>>)
                         /\ ~StartsWith(lines[k], <<c, c, c>>)}
    IN  Of(SplitChar(text, NL))

EndsWithNewline(bytes) == EndsWith(bytes, <<NL>>)

\* C9 as stated: after a successful non-dry-run edit the file ends with a
\* line terminator exactly when it did before; for "hello\nworld\n" and the
\* edit world -> there the file holds "hello\nthere\n" and the diff has one
\* removed and one added line.
C9_EditKeepsTheRest ==
    (EditReadsFile /\ ~op.dryRun /\ wr.pc = "done") =>
        /\ EndsWithNewline(EditTarget.data) = EndsWithNewline(Snapshot(fs, wr.path).data)
        /\ (EditTarget.data = HelloWorld /\ op.edits = <<Edit(World, There)>>) =>
              /\ Snapshot(fs, wr.path).data = <<"h", "e", "l", "l", "o", NL>> \o There \o <<NL>>
              /\ Cardinality(DiffLines(ret.text, "-")) = 1
              /\ Cardinality(DiffLines(ret.text, "+")) = 1

----------------------------------------------------------------------------
(* Tail reads (SpecTail).                                                  *)

\* C10 as stated: a read with tail = n returns, in order and joined by "\n",
\* the last min(n, L) of the L lines a full read of the file splits into.
C10_TailIsLastLines ==
    (op.name = "read_file" /\ Truthy(op.tail) /\ ret.kind = "content") =>
        ret.text = JoinWith(LastOf(splitlines(TextDecode(NodeAt(fs0, vcalls[1].res.path).data)),
                                   op.tail),
                            <<NL>>)

----------------------------------------------------------------------------
(* move_file.                                                              *)

\* The physical place a path string leads to, as a path string.
PlaceOf(fsys, p) == ToStr(ReachNoFollow(fsys, p).path)

Renames == SelectSeq(oscalls, LAMBDA c : c.call = "rename")

\* C11: a move validates its source and its destination, each on its own,
\* before its only rename.  When one of them is outside the root, or leads
\* outside it through a link (the destination's directory too), the call
\* returns an error, nothing is renamed and the filesystem is as it was;
\* when both validate there is exactly one rename, from the validated
\* source to the validated destination, both places inside the root.
C11_MoveValidatesBothEnds ==
    (op.name = "move_file" /\ ret.kind # "none") =>
        /\ Len(vcalls) >= 1 /\ vcalls[1].arg = op.source
        /\ Len(vcalls) = 2 => vcalls[2].arg = op.destination
        /\ IF \A i \in DOMAIN vcalls : vcalls[i].res.ok
           THEN /\ Len(vcalls) = 2
                /\ oscalls = <<CallTo("rename", vcalls[1].res.path, vcalls[2].res.path)>>
                /\ InsideRoot(PlaceOf(fs0, vcalls[1].res.path))
                /\ InsideRoot(PlaceOf(fs0, vcalls[2].res.path))
           ELSE /\ ret.kind = "error"
                /\ Renames = <<>>
                /\ fs = fs0
        /\ (\/ ~InsideRoot(PlaceOf(fs0, normalize_path(cwd, op.source)))
            \/ ~InsideRoot(PlaceOf(fs0, normalize_path(cwd, op.destination))))
           => (ret.kind = "error" /\ Renames = <<>> /\ fs = fs0)

\* A move whose destination is spelled inside the root and lies in a linked
\* directory outside it has been refused.
C11_Witness ==
    /\ op.name = "move_file" /\ ret.kind = "error"
    /\ Len(vcalls) = 2 /\ vcalls[1].res.ok /\ ~vcalls[2].res.ok
    /\ InsideRoot(normalize_path(cwd, op.destination))
    /\ ~InsideRoot(PlaceOf(fs0, normalize_path(cwd, op.destination)))

----------------------------------------------------------------------------
(* The shape of what a call returns.                                       *)

\* C12: every call returns a JSON object of one of two shapes, content on
\* success and error on failure; a successful write, create_directory or
\* move included.
C12_ContentOrError ==
    ret.kind # "none" => ret.kind \in {"content", "error"}

----------------------------------------------------------------------------
(* search_files.                                                           *)

\* C13: a search under a directory inside the root succeeds and returns
\* exactly the files below it whose name holds the pattern, whatever the
\* case of either, and whose path from the search root matches no exclude
\* pattern (what the helper of lines 191-205 collects), one full path a
\* line, or "No matches found" when there is none.
C13_SearchReturnsMatches ==
    (op.name = "search_files" /\ ret.kind # "none" /\ vcalls[1].res.ok
        /\ isdir(fs0, vcalls[1].res.path)) =>
        LET Expected(results) ==
                IF results = {} THEN ret.text = <<"N", "o", " ", "m", "a", "t", "c", "h",
                                                  "e", "s", " ", "f", "o", "u", "n", "d">>
                ELSE LET lines == SplitChar(ret.text, NL)
                     IN  /\ Len(lines) = Cardinality(results)
                         /\ {lines[i] : i \in DOMAIN lines} = results
        IN  /\ ret.kind = "content"
            /\ Expected(search_files_helper(fs0, cwd, vcalls[1].res.path, op.pattern,
                                            op.excludePatterns))

----------------------------------------------------------------------------
(* read_multiple_files.                                                    *)

\* text cut at every place where sep stands.
RECURSIVE SplitOn(_, _)
SplitOn(text, sep) ==
    IF Find(text, sep) = 0 THEN <<text>>
    ELSE <<SubSeq(text, 1, Find(text, sep) - 1)>>
         \o SplitOn(From(text, Find(text, sep) + Len(sep) - 1), sep)

\* C14: a read of k paths always returns a success payload with exactly k
\* results in the order of the paths: the content of each path that could
\* be read, an inline Error entry, and nothing more, for each that could
\* not, whether refused or not readable.
C14_OneResultPerPath ==
    (op.name = "read_multiple_files" /\ ret.kind # "none") =>
        LET k == Len(op.paths)
            results == SplitOn(ret.text, ResultsSeparator)
            Readable(i) == vcalls[i].res.ok
                           /\ NodeAt(fs0, vcalls[i].res.path).kind = "file"
            ResultOf(i, entry) ==
                IF Readable(i)
                THEN entry = op.paths[i] \o <<":", NL>>
                             \o TextDecode(NodeAt(fs0, vcalls[i].res.path).data) \o <<NL>>
                ELSE /\ StartsWith(entry, op.paths[i] \o ErrorMark)
                     /\ ~Contains(entry, <<NL>>)
        IN  /\ ret.kind = "content"
            /\ fs = fs0
            /\ Len(vcalls) = k
            /\ IF k = 0 THEN ret.text = <<>>
               ELSE /\ Len(results) = k
                    /\ \A i \in 1..k : vcalls[i].arg = op.paths[i]
                                       /\ ResultOf(i, results[i])

\* A read of two paths has returned an error entry for the first, which
\* was refused, and the content of the second.
C14_Witness ==
    /\ op.name = "read_multiple_files" /\ ret.kind = "content"
    /\ Len(op.paths) = 2
    /\ ~vcalls[1].res.ok
    /\ vcalls[2].res.ok /\ NodeAt(fs0, vcalls[2].res.path).kind = "file"
    /\ EndsWith(ret.text, TextDecode(NodeAt(fs0, vcalls[2].res.path).data) \o <<NL>>)

----------------------------------------------------------------------------
(* read_file with head and tail.                                           *)

\* C15: a read that gives both head and tail, whatever the two integers,
\* zero included, is rejected with an error before any path is validated
\* and any file opened.
C15_HeadAndTailRejected ==
    (op.name = "read_file" /\ ret.kind # "none" /\ op.head # None /\ op.tail # None) =>
        /\ ret.kind = "error"
        /\ vcalls = <<>>
        /\ oscalls = <<>>

\* C16: a read with head = n, n >= 0, of a file of L lines returns exactly
\* its first min(n, L) lines, and so never more than n.
C16_HeadIsFirstLines ==
    (op.name = "read_file" /\ ret.kind = "content" /\ op.head # None /\ op.tail = None) =>
        LET lines == splitlines(TextDecode(NodeAt(fs0, vcalls[1].res.path).data))
        IN  ret.text = JoinWith(SubSeq(lines, 1, Min(op.head, Len(lines))), <<NL>>)

----------------------------------------------------------------------------
(* list_directory_with_sizes.                                              *)

Sized == op.name = "list_directory_with_sizes" /\ ret.kind = "content"

\* The lines of the listing that stand for entries, the name each shows and
\* the size its file has.
EntryLines == LET lines == SplitChar(ret.text, NL)
              IN  SubSeq(lines, 1, Len(lines) - 3)
SummaryLines == LET lines == SplitChar(ret.text, NL)
                IN  SubSeq(lines, Len(lines) - 2, Len(lines))
IsFileLine(line) == StartsWith(line, FILETAG)
IsDirLine(line) == StartsWith(line, DIRTAG)
NameShown(line) ==
    LET After(tag) == RStrip(SubSeq(line, Len(tag) + 2, Len(tag) + 31), {" "})
    IN  After(IF IsFileLine(line) THEN FILETAG ELSE DIRTAG)
FileSize(line) ==
    LET Of(node) == IF node.kind = "file" THEN Len(node.data) ELSE 0
    IN  Of(NodeAt(fs0, PathJoin(vcalls[1].res.path, NameShown(line))))

\* C17: a sized listing is in ascending order of name when sorted by name;
\* when sorted by size the sizes of its files do not increase down the
\* listing, and the directories take no part in the order by size: the
\* listing is the same whatever size the filesystem reports for them.
C17_SortedAsAsked ==
    Sized =>
        /\ op.sortBy = "name" =>
               \A i, j \in DOMAIN EntryLines :
                   i < j => StrLess(NameShown(EntryLines[i]), NameShown(EntryLines[j]))
        /\ op.sortBy = "size" =>
               /\ \A i, j \in DOMAIN EntryLines :
                      (i < j /\ IsFileLine(EntryLines[i]) /\ IsFileLine(EntryLines[j]))
                          => FileSize(EntryLines[i]) >= FileSize(EntryLines[j])
               /\ \A dir_size \in DirSizes :
                      ret.text = SizedListing(fs0, vcalls[1].res.path, oscalls[1].result,
                                              op.sortBy, dir_size)

RECURSIVE SumOf(_, _)
SumOf(F(_), seq) == IF seq = <<>> THEN 0 ELSE F(Head(seq)) + SumOf(F, Tail(seq))

\* C18: the summary of a sized listing agrees with the entries listed: as
\* many files as there are [FILE] lines, as many directories as there are
\* [DIR] lines, every name of the directory on one of them, and a combined
\* size that is the sum of the sizes of the [FILE] entries alone, an entry
\* whose stat failed counting 0.
C18_SummaryAgrees ==
    Sized =>
        /\ Len(EntryLines) = Cardinality(Children(fs0, Reach(fs0, vcalls[1].res.path).path))
        /\ \A i \in DOMAIN EntryLines : IsFileLine(EntryLines[i]) \/ IsDirLine(EntryLines[i])
        /\ SummaryLines =
             << <<>>,
                TotalWord \o Decimal(Len(SelectSeq(EntryLines, IsFileLine))) \o FilesWord
                \o Decimal(Len(SelectSeq(EntryLines, IsDirLine))) \o DirectoriesWord,
                CombinedWord
                \o format_size(SumOf(FileSize, SelectSeq(EntryLines, IsFileLine))) >>

\* A listing has been made of a directory with files, a directory whose own
\* size is not 0 and a link whose stat fails.
C18_Witness ==
    /\ Sized
    /\ \E i \in DOMAIN EntryLines :
          /\ IsFileLine(EntryLines[i])
          /\ IsKind(fs0, <<nS, NameShown(EntryLines[i])>>, "link")
          /\ NodeAt(fs0, PathJoin(vcalls[1].res.path, NameShown(EntryLines[i]))).kind = "ENOENT"
    /\ \E i \in DOMAIN EntryLines : IsFileLine(EntryLines[i]) /\ FileSize(EntryLines[i]) > 0
    /\ \E i \in DOMAIN oscalls :
          /\ oscalls[i].call = "stat" /\ oscalls[i].result > 0
          /\ isdir(fs0, oscalls[i].path)

----------------------------------------------------------------------------
(* Start-up.                                                               *)

\* C19: when the configuration of the root is missing or invalid (no
\* filesystem-server entry, no allowedDir key, an allowedDir that is empty
\* or relative) the start fails and no call is served; so whenever a call
\* runs the allowed root is a non-empty absolute path.
C19_RootIsAbsoluteWhenServing ==
    /\ (conf.state = "failed" \/ conf.state = "loading") => (op.name = "none" /\ ret.kind = "none")
    /\ op.name # "none" =>
           /\ conf.state = "serving"
           /\ conf.ALLOWED_DIR # <<>>
           /\ isabs(conf.ALLOWED_DIR)

----------------------------------------------------------------------------
(* The window between validate_path and the use of the path it returned.   *)

\* A read has opened the path validate_path returned, and the kernel went
\* to a place outside the root for it.
OpenedOutside ==
    /\ op.name = "read_file" /\ ret.kind # "none"
    /\ Len(oscalls) = 1 /\ oscalls[1].call = "open"
    /\ vcalls[1].res.ok /\ InsideRoot(vcalls[1].res.path)
    /\ oscalls[1].path = vcalls[1].res.path
    /\ ~InsideRoot(oscalls[1].result)

\* C20: nothing holds the filesystem still between validate_path and the
\* use of the path it returned.  A read whose path validate_path accepted
\* inside the root opens a place outside the root only when another process
\* has changed the filesystem between the two, so that a component of the
\* path is by then a link that points outside the root and was not at the
\* check; with the filesystem as it was at the check the open stays inside
\* the root.
C20_OutsideOnlyAfterSwap ==
    /\ (op.name = "read_file" /\ Len(vcalls) = 1 /\ vcalls[1].res.ok)
           => InsideRoot(ToStr(Reach(fs0, vcalls[1].res.path).path))
    /\ OpenedOutside =>
           /\ fs # fs0
           /\ \E k \in 1..Len(ToComps(vcalls[1].res.path)) :
                 LET phys == SubSeq(ToComps(vcalls[1].res.path), 1, k)
                 IN  /\ IsKind(fs, phys, "link")
                     /\ (Exists(fs0, phys) => fs0[phys] # fs[phys])
                     /\ ~InsideRoot(realpath(fs, ToStr(phys)))

\* The interleaving: the path was accepted, a link was put in its place,
\* and the read returned what a file outside the root holds.
C20_Witness ==
    /\ OpenedOutside
    /\ ret.kind = "content"
    /\ ret.text = TextDecode(NodeAt(fs, PathOf(<<nE, nP>>)).data)
    /\ fs # fs0

----------------------------------------------------------------------------
(* The temporary file of a write or an edit.                               *)

\* The call had its temporary file open: wr.temp names it.
HadTemp == wr.pc # "idle" /\ wr.temp # <<>>

\* C21: when a write or an edit that persists returns an error after its
\* temporary file was opened (the write to it failed, the rename failed, or
\* either failed in the branch of write that reopens an existing temporary
\* file), the temporary file has been deleted: no failed call leaves it
\* behind.
C21_FailureRemovesTemp ==
    (op.name \in {"write_file", "edit_file"} /\ ret.kind = "error" /\ HadTemp) =>
        ~Exists(fs, ReachNoFollow(fs, wr.temp).path)

\* The branch a write took: open(temp_path, "x") and its rename, or the
\* handler of FileExistsError with open(temp_path, "w") and its rename.
TookExclusive == wr.cleanup
DestinationExisted == wr.prior.kind # "ENOENT"

\* C22: a write opens its temporary file exclusively and goes on to the
\* rename of that branch only when the destination did not exist when the
\* path was validated; when it did exist the write takes the branch that
\* reopens without exclusivity; a write that succeeds either way leaves the
\* destination holding exactly the new content.
C22_ExclusiveOnlyForNewDestination ==
    (op.name = "write_file" /\ HadTemp) =>
        /\ TookExclusive <=> ~DestinationExisted
        /\ wr.pc = "done" =>
               /\ ret.kind = "message"
               /\ NodeAt(fs, wr.path) = File(TextEncode(op.content))

----------------------------------------------------------------------------
(* validate_path for a name that does not exist yet.                       *)

\* os.path.dirname of an absolute path.
ParentOf(a) == ToStr(DropLast(ToComps(a)))

\* The call validated a path spelled inside the root whose last name does
\* not exist.
ValidatedNewName ==
    /\ op.name \in {"read_file", "list_directory"}
    /\ Len(vcalls) = 1
    /\ ~HasNul(op.path)
    /\ InsideRoot(normalize_path(cwd, op.path))
    /\ ToComps(normalize_path(cwd, op.path)) # <<>>
    /\ ReachNoFollow(fs0, normalize_path(cwd, op.path)).ok
    /\ ~Exists(fs0, ReachNoFollow(fs0, normalize_path(cwd, op.path)).path)

\* C23: for a path inside the root whose last name does not exist,
\* validate_path resolves and tests only the directory of the path: it
\* fails when the real path of that directory is outside the root, and
\* otherwise returns the normalized path as it was spelled, its links not
\* resolved, so that a new name under a linked directory still spells the
\* link.
C23_NewNameKeepsSpelling ==
    ValidatedNewName =>
        IF InsideRoot(realpath(fs0, ParentOf(normalize_path(cwd, op.path))))
        THEN /\ vcalls[1].res.ok
             /\ vcalls[1].res.path = normalize_path(cwd, op.path)
        ELSE ~vcalls[1].res.ok

\* The edit call that went through: the bytes the file held when the call
\* began, as the text the edits start from, and the bytes it holds now.
EditDone == op.name = "edit_file" /\ wr.pc = "done" /\ wr.kind = "edit"
TextBefore == normalize_line_endings(TextDecode(wr.prior.data))
BytesAfter == NodeAt(fs, wr.path).data

\* Where the lines of old match lines after trimming both sides.
Hits(lines, old) ==
    {i \in 1..(Len(lines) - Len(old) + 1) :
        \A k \in 1..Len(old) :
            Strip(old[k], Whitespace) = Strip(lines[i + k - 1], Whitespace)}

\* The leading whitespace of a line.
Lead(line) == SubSeq(line, 1, Len(line) - Len(LStrip(line, Whitespace)))

\* The lines with the n lines from the i-th on replaced by new, the first
\* new line indented as the i-th line was.
Replaced1(lines, i, n, new) ==
    SubSeq(lines, 1, i - 1)
    \o <<Lead(lines[i]) \o LStrip(new[1], Whitespace)>> \o Tail(new)
    \o SubSeq(lines, i + n, Len(lines))

NoSuchWindow == <<"no window">>

\* One edit on a text: the lowest window that matches replaced, no other.
OneEdit(content, edit) ==
    LET AtLowest(lines, old, new, hits) ==
            IF hits = {} \/ new = <<>> THEN NoSuchWindow
            ELSE JoinWith(Replaced1(lines, CHOOSE i \in hits : \A j \in hits : i <= j,
                                    Len(old), new), <<NL>>)
        On(lines, old, new) == AtLowest(lines, old, new, Hits(lines, old))
    IN  On(splitlines(content), splitlines(normalize_line_endings(edit.oldText)),
           splitlines(normalize_line_endings(edit.newText)))

RECURSIVE FoldEdits(_, _)
FoldEdits(content, edits) ==
    IF edits = <<>> THEN content
    ELSE FoldEdits(OneEdit(content, Head(edits)), Tail(edits))

LastEdit == op.edits[Len(op.edits)]
LinesBeforeLast ==
    splitlines(FoldEdits(TextBefore, SubSeq(op.edits, 1, Len(op.edits) - 1)))
OldLines == splitlines(normalize_line_endings(LastEdit.oldText))
NewLines == splitlines(normalize_line_endings(LastEdit.newText))
LinesAfter == SplitChar(TextDecode(BytesAfter), NL)

\* after is before with the window at i replaced: the first new line behind
\* the indentation of the window's first line, the other new lines as they
\* are, and as many lines more as new has more than old.
SplicedAt(before, after, old, new, i) ==
    /\ after[i] = Lead(before[i]) \o LStrip(new[1], Whitespace)
    /\ \A k \in 2..Len(new) : after[i + k - 1] = new[k]
    /\ Len(after) = Len(before) + Len(new) - Len(old)

\* C25: when an edit matches, the first line written is the leading
\* whitespace of the window's original first line followed by the first
\* line of newText without its own leading whitespace; the other lines of
\* newText go in unchanged, and the number of lines changes by the number
\* of lines of newText minus the number of lines of oldText.
C25_IndentOfWindowKept ==
    EditDone =>
        \E i \in Hits(LinesBeforeLast, OldLines) :
            SplicedAt(LinesBeforeLast, LinesAfter, OldLines, NewLines, i)

\* An edit went through whose window began with an indented line and whose
\* newText had two lines, both beginning with whitespace.
C25_Witness ==
    /\ EditDone
    /\ Len(NewLines) = 2
    /\ Len(OldLines) = 1
    /\ Lead(NewLines[1]) # <<>>
    /\ Lead(NewLines[2]) # <<>>
    /\ \E i \in Hits(LinesBeforeLast, OldLines) :
          /\ Lead(LinesBeforeLast[i]) # <<>>
          /\ Lead(LinesBeforeLast[i]) # Lead(NewLines[1])
          /\ SplicedAt(LinesBeforeLast, LinesAfter, OldLines, NewLines, i)

\* The backticks a text begins with, and the longest run of backticks in it.
LeadingTicks(text) ==
    LET other == {i \in 1..Len(text) : text[i] # BACKTICK}
    IN  IF other = {} THEN Len(text)
        ELSE (CHOOSE i \in other : \A j \in other : i <= j) - 1
LongestRun(text) ==
    LET runs == {n \in 0..Len(text) : Contains(text, [k \in 1..n |-> BACKTICK])}
    IN  CHOOSE n \in runs : \A m \in runs : m <= n

DiffWord == <<"d", "i", "f", "f", NL>>

\* What stands between the opening line of a fence of n backticks and the
\* closing line.
FencedBody(text, n) == SubSeq(text, n + Len(DiffWord) + 1, Len(text) - n - 2)

\* text is body between two fences of n backticks, and no run of backticks
\* in body is as long as n.
FencedBy(text, n, body) ==
    /\ text = [k \in 1..n |-> BACKTICK] \o DiffWord \o body \o <<NL>>
              \o [k \in 1..n |-> BACKTICK] \o <<NL>>
    /\ LongestRun(body) < n
    /\ ~Contains(body, [k \in 1..n |-> BACKTICK])

EditReturnedDiff == op.name = "edit_file" /\ ret.kind = "content"

\* C26: in every diff an edit returns, the opening and the closing fence
\* are the same run of backticks, longer than the longest run of backticks
\* in the diff body, so that the fence does not occur inside the body.
C26_FenceLongerThanAnyRun ==
    EditReturnedDiff =>
        FencedBy(ret.text, LeadingTicks(ret.text),
                 FencedBody(ret.text, LeadingTicks(ret.text)))

\* An edit returned a diff whose body holds a run of nine backticks or
\* more, inside a fence that is longer.
C26_Witness ==
    /\ EditReturnedDiff
    /\ LongestRun(FencedBody(ret.text, LeadingTicks(ret.text))) >= 9
    /\ LeadingTicks(ret.text) > LongestRun(FencedBody(ret.text, LeadingTicks(ret.text)))

\* An edit that names no line to find, a blank first line to find, or no
\* line to put.
NoOldLine(edit) == splitlines(normalize_line_endings(edit.oldText)) = <<>>
BlankFirstOldLine(edit) ==
    /\ ~NoOldLine(edit)
    /\ Strip(splitlines(normalize_line_endings(edit.oldText))[1], Whitespace) = <<>>
NoNewLine(edit) == splitlines(normalize_line_endings(edit.newText)) = <<>>
Degenerate(edit) == NoOldLine(edit) \/ BlankFirstOldLine(edit) \/ NoNewLine(edit)

\* C30: an edit call with an edit whose oldText has no line, whose oldText
\* begins with a blank line, or whose newText has no line ends in an error
\* payload whatever the file holds, and nothing on disk has changed: such
\* an edit neither inserts nor deletes.
C30_DegenerateEditIsAnError ==
    (op.name = "edit_file" /\ \E k \in 1..Len(op.edits) : Degenerate(op.edits[k])) =>
        /\ ret.kind = "error"
        /\ wr.pc = "idle"
        /\ fs = fs0

\* A real edit of two, the first matching and the second matching too but
\* with a newText of no line, ended in the IndexError and left the file as
\* it was.
C30_Witness ==
    /\ op.name = "edit_file"
    /\ ~op.dryRun
    /\ Len(op.edits) = 2
    /\ ~Degenerate(op.edits[1])
    /\ NoNewLine(op.edits[2])
    /\ Hits(splitlines(OneEdit(normalize_line_endings(TextDecode(NodeAt(fs0, EditedFile).data)),
                                op.edits[1])),
            splitlines(op.edits[2].oldText)) # {}
    /\ ret = Error("list index out of range", <<>>)
    /\ fs = fs0

\* The directory a tree call walks, and what lies below it when the call
\* begins.
TreeRoot == Reach(fs0, vcalls[1].res.path).path
BelowRoot == {q \in DOMAIN fs0 : Len(q) > Len(TreeRoot) /\ Under(q, TreeRoot)}
WalksDirectory ==
    /\ op.name = "directory_tree"
    /\ vcalls # <<>>
    /\ vcalls[1].res.ok
    /\ NodeAt(fs0, vcalls[1].res.path).kind = "dir"

\* No link below the root leads to a directory; a link below the root
\* leads to the directory that holds it or to one above that, inside the
\* allowed root.
NoDirectoryLink ==
    \A q \in BelowRoot : fs0[q].kind = "link" => ~isdir(fs0, ToStr(q))
LinkToAncestor ==
    \E q \in BelowRoot :
        /\ fs0[q].kind = "link"
        /\ isdir(fs0, ToStr(q))
        /\ Under(DropLast(q), Reach(fs0, ToStr(q)).path)
        /\ InsideRoot(realpath(fs0, ToStr(q)))

\* The nodes of a tree, the children of every directory counted.
RECURSIVE CountNodes(_)
CountNodes(entries) ==
    IF entries = <<>> THEN 0
    ELSE 1 + (IF Head(entries).type = "directory" THEN CountNodes(Head(entries).children)
              ELSE 0)
           + CountNodes(Tail(entries))

\* The directories nested below the root, the root counted.
Levels ==
    1 + (IF \E q \in BelowRoot : fs0[q].kind = "dir"
         THEN (CHOOSE n \in 1..Cardinality(BelowRoot) :
                  /\ \E q \in BelowRoot : fs0[q].kind = "dir" /\ Len(q) - Len(TreeRoot) = n
                  /\ \A q \in BelowRoot : fs0[q].kind = "dir" => Len(q) - Len(TreeRoot) <= n)
         ELSE 0)

\* C27: the tree walk has no depth limit and no guard against directories
\* met again: on a finite tree without links to directories it ends with
\* one node for every entry below the root, and with a link to an ancestor
\* of the directory that holds it, the target inside the root, it never
\* ends with a tree.
C27_TreeOfEveryFiniteTree ==
    WalksDirectory =>
        /\ (NoDirectoryLink /\ ret.kind # "none") =>
               /\ ret.kind = "content"
               /\ CountNodes(ret.text) = Cardinality(BelowRoot)
        /\ LinkToAncestor => ret.kind # "content"

\* The calls that came to open a temporary file, and the calls that have
\* returned what a success returns.
HasTemp(c) == wr[c].pc # "idle" /\ wr[c].temp # <<>>
Succeeded(c) == wr[c].pc = "done" /\ ret[c].kind \in {"message", "content"}
AllReturnedWell ==
    /\ \E c \in Callers : Succeeded(c)
    /\ \A c \in Callers : wr[c].pc = "idle" \/ Succeeded(c)

\* The names in the directory of the shared file that end in ".tmp".
TempFilesLeft ==
    {q \in DOMAIN fs : Len(q) = 2 /\ q[1] = nS /\ EndsWith(q[2], TMP)}

\* C28: with two or more write and edit calls at once on one path, in
\* whatever order their steps come, every call has a temporary file of its
\* own, the path holds at every moment the whole original content or the
\* whole output of one of the calls, and when all the calls have returned
\* with success no temporary file is left.
C28_WritersDoNotMix ==
    /\ \A c, d \in Callers : (c # d /\ HasTemp(c) /\ HasTemp(d)) => wr[c].temp # wr[d].temp
    /\ Snapshot(fs, SharedFile) \in
          {[kind |-> "file", data |-> TwoLines]}
          \cup {[kind |-> "file", data |-> TextEncode(wr[c].text)] :
                    c \in {d \in Callers : HasTemp(d)}}
    /\ AllReturnedWell => TempFilesLeft = {}

\* Every call has returned with success, one of them having begun while
\* another was between its open and its rename; two different outputs were
\* renamed into place and the path holds the one renamed last.
C28_Witness ==
    /\ \A c \in Callers : Succeeded(c)
    /\ hist.overlapped
    /\ \E c, d \in Callers : wr[c].text # wr[d].text
    /\ Len(hist.order) = MaxCalls
    /\ Snapshot(fs, SharedFile).data = TextEncode(wr[hist.order[MaxCalls]].text)
    /\ TempFilesLeft = {}

\* The file with only the first line replaced, only the second, and both.
OnlyX == <<"p", NL, "y">>
OnlyY == <<"x", NL, "q">>
BothXY == <<"p", NL, "q">>

\* Call c was an edit with these edits and returned its diff.
EditedBy(c, edits) ==
    /\ Succeeded(c)
    /\ op[c].name = "edit_file"
    /\ op[c].edits = edits

\* Call d began when the file held what call c has written, call c having
\* begun on the original: the two calls ran one after the other.
InTurn(c, d) ==
    /\ hist.held[c].data = TwoLines
    /\ hist.held[d].data = TextEncode(wr[c].text)

\* Both calls began on the original content.
BothOnOriginal(c, d) ==
    /\ hist.held[c].data = TwoLines
    /\ hist.held[d].data = TwoLines

LastRenamed == hist.order[Len(hist.order)]

\* C29: an edit renames into place what it computed from the content it
\* read when it began, whatever other calls did since.  Of two edits that
\* replace different lines and both return with success, the later one
\* writes both replacements when it began on what the earlier one wrote;
\* when both began on the original content each writes its own replacement
\* only, and the file ends with one replacement, the other lost.
C29_UpdateLostUnlessInTurn ==
    \A c, d \in Callers :
        (c # d /\ EditedBy(c, EditX) /\ EditedBy(d, EditY)) =>
            /\ InTurn(c, d) => wr[d].text = BothXY
            /\ InTurn(d, c) => wr[c].text = BothXY
            /\ BothOnOriginal(c, d) =>
                   /\ wr[c].text = OnlyX
                   /\ wr[d].text = OnlyY
                   /\ LastRenamed \in {c, d} =>
                          Snapshot(fs, SharedFile).data \in {TextEncode(OnlyX), TextEncode(OnlyY)}

\* Two edits of different lines have both returned with success, each
\* having read the original content, and the file holds one replacement
\* only.
C29_Witness ==
    \E c, d \in Callers :
        /\ c # d
        /\ EditedBy(c, EditX)
        /\ EditedBy(d, EditY)
        /\ BothOnOriginal(c, d)
        /\ hist.overlapped
        /\ LastRenamed \in {c, d}
        /\ Snapshot(fs, SharedFile).data \in {TextEncode(OnlyX), TextEncode(OnlyY)}
        /\ Snapshot(fs, SharedFile).data # TextEncode(BothXY)

====
